---- MODULE Spec2Model ----
(***************************************************************************)
(* Multi-object tracker of src/yolo-tracker.ts: KalmanBoxTracker, iou,     *)
(* cosineSimilarity, ByteTracker and BoTSORT.                               *)
(*                                                                         *)
(* Numbers.  A JavaScript number is modelled as an exact fraction <<n, d>>  *)
(* in lowest terms with d > 0; d = 0 encodes the non-finite values          *)
(* (<<1,0>> = +Infinity, <<-1,0>> = -Infinity, <<0,0>> = NaN).  Rounding    *)
(* error of the floating point operations is not modelled.                 *)
(*                                                                         *)
(* Indices.  Arrays are sequences, so array index i of the source is       *)
(* index i + 1 here.  trackId values are the source's (first id is 0).     *)
(***************************************************************************)
EXTENDS Integers, Sequences, FiniteSets, TLC

VARIABLES count, byte, bot, last, created, host, inline, snap, hitsTracker,
          detector

vars ==
  <<count, byte, bot, last, created, host, inline, snap, hitsTracker, detector>>

-----------------------------------------------------------------------------
(* Bounds of the explored inputs. *)

\* longest detection list handed to one update call
MaxDets == 2
\* total number of update cycles explored (sum of both trackers' frameId)
MaxFrames == 3
\* histogram bins of an appearance descriptor (16 in the source)
NumBins == 2
\* number of update cycles explored in the runs of SpecLong
MaxLongFrames == 5
\* number of update cycles explored in the runs of SpecScenario
MaxScenarioFrames == 2
\* number of processFrame invocations explored in the runs of SpecHost
MaxInvocations == 3

\* frames given to the inline tracker of src/index.tsx
MaxInlineFrames == 3

-----------------------------------------------------------------------------
(* Number arithmetic *)

Abs(n) == IF n < 0 THEN -n ELSE n

Sgn(n) == IF n > 0 THEN 1 ELSE IF n < 0 THEN -1 ELSE 0

RECURSIVE Gcd(_, _)
Gcd(a, b) == IF b = 0 THEN a ELSE Gcd(b, a % b)

Reduce(n, d, g) == IF d < 0 THEN <<-(n \div g), -(d \div g)>> ELSE <<n \div g, d \div g>>

\* the fraction n / d in lowest terms
Norm(n, d) == IF d = 0 THEN <<Sgn(n), 0>> ELSE Reduce(n, d, Gcd(Abs(n), Abs(d)))

R(n) == <<n, 1>>

Frac(n, d) == Norm(n, d)

NaN == <<0, 0>>

IsNaN(a) == a = NaN

IsFinite(a) == a[2] # 0

RNeg(a) == <<-a[1], a[2]>>

RAdd(a, b) ==
  IF a[2] = 0 /\ b[2] = 0 THEN (IF a = b THEN a ELSE NaN)
  ELSE Norm(a[1] * b[2] + b[1] * a[2], a[2] * b[2])

RSub(a, b) == RAdd(a, RNeg(b))

RMul(a, b) == Norm(a[1] * b[1], a[2] * b[2])

Recip(a) ==
  IF a[1] > 0 THEN <<a[2], a[1]>>
  ELSE IF a[1] < 0 THEN <<-a[2], -a[1]>>
  ELSE IF a[2] = 0 THEN NaN ELSE <<1, 0>>

RDiv(a, b) == RMul(a, Recip(b))

RLt(a, b) ==
  IF IsNaN(a) \/ IsNaN(b) THEN FALSE
  ELSE IF a[2] = 0 /\ b[2] = 0 THEN a[1] < b[1]
  ELSE a[1] * b[2] < b[1] * a[2]

RGt(a, b) == RLt(b, a)

RGeq(a, b) == ~IsNaN(a) /\ ~IsNaN(b) /\ ~RLt(a, b)

\* Math.max / Math.min of two numbers
RMax(a, b) == IF IsNaN(a) \/ IsNaN(b) THEN NaN ELSE IF RLt(a, b) THEN b ELSE a

RMin(a, b) == IF IsNaN(a) \/ IsNaN(b) THEN NaN ELSE IF RLt(b, a) THEN b ELSE a

\* Math.floor
RFloor(a) == IF a[2] = 0 THEN a ELSE R(a[1] \div a[2])

\* integer square root by Newton's iteration from above
RECURSIVE Newton(_, _)
NewtonStep(n, x, y) == IF y >= x THEN x ELSE Newton(n, y)

Newton(n, x) == NewtonStep(n, x, (x + (n \div x)) \div 2)

ISqrt(n) == IF n = 0 THEN 0 ELSE Newton(n, n)

\* Math.sqrt, exact on the squares of fractions (the only arguments that the
\* explored descriptors produce); any other argument is an evaluation error.
ExactRoot(a, p, q) ==
  IF p * p = a[1] /\ q * q = a[2] THEN <<p, q>> ELSE CHOOSE x \in {} : TRUE

RSqrt(a) ==
  IF a[2] = 0 THEN (IF a[1] = 1 THEN a ELSE NaN)
  ELSE IF a[1] < 0 THEN NaN
  ELSE ExactRoot(a, ISqrt(a[1]), ISqrt(a[2]))

-----------------------------------------------------------------------------
(* Sequence helpers *)

Range(s) == {s[i] : i \in DOMAIN s}

\* the arrays [0 .. n-1] produced by Array.from(xs.keys()), as indices 1..n
Keys(s) == [i \in 1..Len(s) |-> i]

\* an absent value: `undefined' for an appearance descriptor
Undefined == <<>>

\* xs[i] of a JavaScript array: undefined outside the array
At(s, i) == IF i \in DOMAIN s THEN s[i] ELSE Undefined

\* xs.slice(from) / xs.slice(0, to), in source (0-based) terms
SliceTo(s, to) == SubSeq(s, 1, IF to < Len(s) THEN to ELSE Len(s))

SliceFrom(s, from) == SubSeq(s, from + 1, Len(s))

-----------------------------------------------------------------------------
(* KalmanBoxTracker *)

\* constructor(bbox, appearance); id is the value of KalmanBoxTracker.count++
\* bbox [x, y, w, h] as <<cx, cy, s, h>>: centre, area and height
Measure(bbox) ==
  <<RAdd(bbox[1], RDiv(bbox[3], R(2))), RAdd(bbox[2], RDiv(bbox[4], R(2))),
    RMul(bbox[3], bbox[4]), bbox[4]>>

NewTrackMoving(id, bbox, appearance) ==
  [trackId |-> id,
   state |-> Measure(bbox) \o <<R(1), R(0), R(0), R(0)>>,
   age |-> 0, hits |-> 0, timeSinceUpdate |-> 0,
   appearance |-> appearance]

NewTrackAged(id, bbox, appearance) ==
  [trackId |-> id,
   state |-> Measure(bbox) \o <<R(0), R(0), R(0), R(0)>>,
   age |-> 1, hits |-> 0, timeSinceUpdate |-> 0,
   appearance |-> appearance]

NewTrack(id, bbox, appearance) ==
  [trackId |-> id,
   state |-> Measure(bbox) \o <<R(0), R(0), R(0), R(0)>>,
   age |-> 0, hits |-> 0, timeSinceUpdate |-> 0,
   appearance |-> appearance]

\* F = identity with F[i][i+4] = 1 for i < 4; newState = F * state
PredictState(st) ==
  [i \in 1..8 |-> IF i <= 4 THEN RAdd(st[i], st[i + 4]) ELSE st[i]]

PredictWithoutTick(t) ==
  [t EXCEPT !.state = PredictState(t.state),
            !.age = t.age + 1,
            !.hits = IF t.timeSinceUpdate > 0 THEN 0 ELSE t.hits]

PredictKeepHits(t) ==
  [t EXCEPT !.state = PredictState(t.state),
            !.age = t.age + 1,
            !.timeSinceUpdate = t.timeSinceUpdate + 1]

PredictNoAge(t) ==
  [t EXCEPT !.state = PredictState(t.state),
            !.hits = IF t.timeSinceUpdate > 0 THEN 0 ELSE t.hits,
            !.timeSinceUpdate = t.timeSinceUpdate + 1]

Predict(t) ==
  [t EXCEPT !.state = PredictState(t.state),
            !.age = t.age + 1,
            !.hits = IF t.timeSinceUpdate > 0 THEN 0 ELSE t.hits,
            !.timeSinceUpdate = t.timeSinceUpdate + 1]

AlphaHalf == Frac(1, 2)

\* alpha = 0.6
Alpha == Frac(3, 5)

\* beta = 0.9
Beta == Frac(9, 10)

Blend(old, new, a) == RAdd(RMul(old, RSub(R(1), a)), RMul(new, a))

UpdateAppearanceReplace(old, appearance) ==
  IF appearance # Undefined THEN appearance ELSE old

UpdateAppearance(old, appearance) ==
  IF appearance # Undefined /\ old # Undefined
  THEN [i \in DOMAIN old |->
          RAdd(RMul(old[i], Beta),
               RMul(IF i \in DOMAIN appearance THEN appearance[i] ELSE NaN,
                    RSub(R(1), Beta)))]
  ELSE IF appearance # Undefined THEN appearance
  ELSE old

BlendStateVelocity(st, z) ==
  [i \in 1..8 |-> IF i <= 4 THEN Blend(st[i], z[i], Alpha) ELSE RSub(z[i - 4], st[i - 4])]

\* this.state[i] = this.state[i] * (1 - alpha) + z[i] * alpha for i < 4
BlendState(st, z) ==
  [i \in 1..8 |-> IF i <= 4 THEN Blend(st[i], z[i], Alpha) ELSE st[i]]

UpdateNoReset(t, bbox, appearance) ==
  [timeSinceUpdate |-> t.timeSinceUpdate, hits |-> t.hits + 1,
   state |-> BlendState(t.state, Measure(bbox)),
   appearance |-> UpdateAppearance(t.appearance, appearance),
   trackId |-> t.trackId, age |-> t.age]

UpdateCreditTwo(t, bbox, appearance) ==
  [timeSinceUpdate |-> 0, hits |-> t.hits + 2,
   state |-> BlendState(t.state, Measure(bbox)),
   appearance |-> UpdateAppearance(t.appearance, appearance),
   trackId |-> t.trackId, age |-> t.age]

Update(t, bbox, appearance) ==
  [timeSinceUpdate |-> 0, hits |-> t.hits + 1,
   state |-> BlendState(t.state, Measure(bbox)),
   appearance |-> UpdateAppearance(t.appearance, appearance),
   trackId |-> t.trackId, age |-> t.age]

\* [cx - w / 2, cy - h / 2, w, h]
BoxAround(cx, cy, w, h) == <<RSub(cx, RDiv(w, R(2))), RSub(cy, RDiv(h, R(2))), w, h>>

\* w = s / h
GetBBox(t) ==
  BoxAround(t.state[1], t.state[2], RDiv(t.state[3], t.state[4]), t.state[4])

-----------------------------------------------------------------------------
(* iou and cosineSimilarity *)

\* interArea / (boxAArea + boxBArea - interArea)
IouOf(interArea, boxAArea, boxBArea) ==
  RDiv(interArea, RSub(RAdd(boxAArea, boxBArea), interArea))

\* Math.max(0, xB - xA) * Math.max(0, yB - yA)
InterArea(xA, yA, xB, yB) ==
  RMul(RMax(R(0), RSub(xB, xA)), RMax(R(0), RSub(yB, yA)))

Iou(boxA, boxB) ==
  IouOf(InterArea(RMax(boxA[1], boxB[1]), RMax(boxA[2], boxB[2]),
                  RMin(RAdd(boxA[1], boxA[3]), RAdd(boxB[1], boxB[3])),
                  RMin(RAdd(boxA[2], boxA[4]), RAdd(boxB[2], boxB[4]))),
        RMul(boxA[3], boxA[4]), RMul(boxB[3], boxB[4]))

RECURSIVE SumOver(_, _, _)
SumOver(a, b, i) ==
  IF i > Len(a) THEN R(0) ELSE RAdd(RMul(a[i], b[i]), SumOver(a, b, i + 1))

\* x / (y + 1e-8): the 1e-8 decides the result only when y is 0
DivEps(x, y) == IF y = R(0) THEN RMul(x, R(100000000)) ELSE RDiv(x, y)

CosineSimilarity(a, b) ==
  IF a = Undefined \/ b = Undefined \/ Len(a) # Len(b) THEN R(0)
  ELSE DivEps(SumOver(a, b, 1),
              RMul(RSqrt(SumOver(a, a, 1)), RSqrt(SumOver(b, b, 1))))

-----------------------------------------------------------------------------
(* Association: ByteTracker.match and BoTSORT.matchWithAppearance *)

\* new Set(xs): the members of xs in order of first occurrence
AddOnce(f, x) == IF x \in Range(f) THEN f ELSE Append(f, x)

RECURSIVE Dedup(_)
Dedup(s) ==
  IF s = <<>> THEN <<>> ELSE AddOnce(Dedup(SubSeq(s, 1, Len(s) - 1)), s[Len(s)])

\* set.delete(x) on a Set kept in insertion order
Delete(s, x) == SelectSeq(s, LAMBDA y : y # x)

\* trackIndices.forEach(tIdx => detIndices.forEach(dIdx => ...)): every pair,
\* track index outer, detection index inner, kept when its score >= iouThresh
\* (score[tIdx, dIdx] is the score the loop body computes for the pair)
Candidates(trackIndices, detIndices, score, iouThresh) ==
  LET nD == Len(detIndices)
      all == [k \in 1..(Len(trackIndices) * nD) |->
                LET tIdx == trackIndices[((k - 1) \div nD) + 1]
                    dIdx == detIndices[((k - 1) % nD) + 1]
                IN [tIdx |-> tIdx, dIdx |-> dIdx, score |-> score[tIdx, dIdx]]]
  IN SelectSeq(all, LAMBDA c : RGeq(c.score, iouThresh))

\* the comparator (a, b) => b.score - a.score puts a before b when negative
Before(a, b) == RLt(RSub(b.score, a.score), R(0))

\* position at which a stable sort places c among the already sorted s
FirstOf(hit, none) ==
  IF hit = {} THEN none ELSE CHOOSE i \in hit : \A j \in hit : i <= j

InsertPos(s, c) == FirstOf({i \in DOMAIN s : Before(c, s[i])}, Len(s) + 1)

InsertAt(f, c, p) == SubSeq(f, 1, p - 1) \o <<c>> \o SubSeq(f, p, Len(f))

InsertFirst(f, c) == InsertAt(f, c, FirstOf({i \in DOMAIN f : ~Before(f[i], c)}, Len(f) + 1))

\* stable insertion: c, later in the array than all of f, goes after its equals
Insert(f, c) == InsertAt(f, c, InsertPos(f, c))

SortNone(s) == s

\* candidates.sort((a, b) => b.score - a.score), a stable sort
RECURSIVE SortCandidates(_)
SortCandidates(s) ==
  IF s = <<>> THEN <<>>
  ELSE Insert(SortCandidates(SubSeq(s, 1, Len(s) - 1)), s[Len(s)])

AcceptNoDelete(acc, c) ==
  IF c.tIdx \in Range(acc.unmatchedTracks) /\ c.dIdx \in Range(acc.unmatchedDets)
  THEN [acc EXCEPT !.matches = Append(acc.matches, <<c.tIdx, c.dIdx>>),
                   !.unmatchedTracks = Delete(acc.unmatchedTracks, c.tIdx)]
  ELSE acc

\* body of candidates.forEach(c => ...)
Accept(acc, c) ==
  IF c.tIdx \in Range(acc.unmatchedTracks) /\ c.dIdx \in Range(acc.unmatchedDets)
  THEN [matches |-> Append(acc.matches, <<c.tIdx, c.dIdx>>),
        unmatchedTracks |-> Delete(acc.unmatchedTracks, c.tIdx),
        unmatchedDets |-> Delete(acc.unmatchedDets, c.dIdx)]
  ELSE acc

GreedyOne(cands, i, acc) ==
  IF cands = <<>> THEN acc ELSE Accept(acc, cands[1])

RECURSIVE Greedy(_, _, _)
Greedy(cands, i, acc) ==
  IF i > Len(cands) THEN acc ELSE Greedy(cands, i + 1, Accept(acc, cands[i]))

\* sort, greedy acceptance and the returned {matches, unmatchedTracks, unmatchedDets}
Assign(candidates, trackIndices, detIndices) ==
  Greedy(SortCandidates(candidates), 1,
         [matches |-> <<>>,
          unmatchedTracks |-> Dedup(trackIndices),
          unmatchedDets |-> Dedup(detIndices)])

\* ByteTracker.match
Match(tracks, dets, trackIndices, detIndices, iouThresh) ==
  Assign(Candidates(trackIndices, detIndices,
                    [tIdx \in Range(trackIndices), dIdx \in Range(detIndices) |->
                       Iou(GetBBox(tracks[tIdx]), dets[dIdx].bbox)],
                    iouThresh),
         trackIndices, detIndices)

\* score of one pair in BoTSORT.matchWithAppearance
FinalScore(track, det, appearance, appearanceWeight) ==
  IF track.appearance # Undefined /\ appearance # Undefined
  THEN RAdd(RMul(RSub(R(1), appearanceWeight), Iou(GetBBox(track), det.bbox)),
            RMul(appearanceWeight, CosineSimilarity(track.appearance, appearance)))
  ELSE Iou(GetBBox(track), det.bbox)

\* BoTSORT.matchWithAppearance
MatchWithAppearance(tracks, dets, trackIndices, detIndices, iouThresh, appearances, appearanceWeight) ==
  Assign(Candidates(trackIndices, detIndices,
                    [tIdx \in Range(trackIndices), dIdx \in Range(detIndices) |->
                       FinalScore(tracks[tIdx], dets[dIdx], At(appearances, dIdx),
                                  appearanceWeight)],
                    iouThresh),
         trackIndices, detIndices)

-----------------------------------------------------------------------------
(* BoTSORT.extractAppearance *)

\* The frame handed to BoTSORT.update: absent, or an image of one colour
\* (every pixel falls in histogram bin `bin').
NoFrame == [present |-> FALSE, width |-> 0, height |-> 0, bin |-> 1]

\* number of loop iterations of  for (p = max(0, lo); p < min(size, lo + len); p++)
Iterations(from, to) == IF RLt(from, to) THEN RSub(to, from) ELSE R(0)

Span(lo, len, size) == Iterations(RMax(R(0), lo), RMin(R(size), RAdd(lo, len)))

\* histogram.map(v => v / (count + 1e-8)) where every pixel counted fell in
\* bin imageData.bin
Histogram(bin, pixels) ==
  [i \in 1..NumBins |-> DivEps(IF i = bin THEN pixels ELSE R(0), pixels)]

ExtractAppearance(imageData, bbox) ==
  Histogram(imageData.bin,
            RMul(Span(RFloor(bbox[2]), RFloor(bbox[4]), imageData.height),
                 Span(RFloor(bbox[1]), RFloor(bbox[3]), imageData.width)))

-----------------------------------------------------------------------------
(* One update cycle: ByteTracker.update and BoTSORT.update *)

HighDetsAny(detections, highThresh) ==
  SelectSeq(detections, LAMBDA d : RGt(d.score, Frac(1, 10)))

\* detections.filter(d => d.score >= this.highThresh)
HighDets(detections, highThresh) ==
  SelectSeq(detections, LAMBDA d : RGeq(d.score, highThresh))

\* detections.filter(d => d.score < this.highThresh && d.score > 0.1)
LowDets(detections, highThresh) ==
  SelectSeq(detections,
            LAMBDA d : RLt(d.score, highThresh) /\ RGt(d.score, Frac(1, 10)))

\* this.tracks.forEach(t => t.predict())
PredictAll(tracks) == [i \in DOMAIN tracks |-> Predict(tracks[i])]

\* matches.forEach(m => this.tracks[m[0]].update(dets[m[1]].bbox, apps[m[1]]))
RECURSIVE ApplyUpdates(_, _, _, _, _)
ApplyUpdates(tracks, matches, dets, apps, i) ==
  IF i > Len(matches) THEN tracks
  ELSE LET m == matches[i]
       IN ApplyUpdates(
            [tracks EXCEPT ![m[1]] = Update(tracks[m[1]], dets[m[2]].bbox, At(apps, m[2]))],
            matches, dets, apps, i + 1)

Stage2AllTracks(trackIndices, uTracks1) == trackIndices

\* the track indices handed to the second association: uTracks1, not the
\* trackIndices of the first
Stage2Tracks(trackIndices, uTracks1) == uTracks1

SpawnEvery(tracks, uDets1, highDets, apps, cnt) ==
  tracks \o [k \in DOMAIN highDets |->
               NewTrack(cnt + k - 1, highDets[k].bbox, At(apps, k))]

SpawnReplace(tracks, uDets1, highDets, apps, cnt) ==
  [k \in DOMAIN uDets1 |->
     NewTrack(cnt + k - 1, highDets[uDets1[k]].bbox, At(apps, uDets1[k]))]

\* uDets1.forEach(idx => this.tracks.push(new KalmanBoxTracker(d.bbox, apps[idx])))
\* the k-th new track takes the id KalmanBoxTracker.count++ yields
Spawn(tracks, uDets1, highDets, apps, cnt) ==
  tracks \o [k \in DOMAIN uDets1 |->
               NewTrack(cnt + k - 1, highDets[uDets1[k]].bbox, At(apps, uDets1[k]))]

CountAfterStuck(cnt, n) == cnt

\* KalmanBoxTracker.count after n constructor calls (this.trackId = count++)
CountAfter(cnt, n) == cnt + n

PruneLate(tracks, trackBufferFrames) ==
  SelectSeq(tracks, LAMBDA t : t.timeSinceUpdate <= trackBufferFrames)

PruneEarly(tracks, trackBufferFrames) ==
  SelectSeq(tracks, LAMBDA t : t.timeSinceUpdate + 1 < trackBufferFrames)

\* this.tracks.filter(t => t.timeSinceUpdate < this.trackBufferFrames)
Prune(tracks, trackBufferFrames) ==
  SelectSeq(tracks, LAMBDA t : t.timeSinceUpdate < trackBufferFrames)

\* the records of `return this.tracks.map(t => ...)'
Emit(tracks, withAppearance) ==
  [i \in DOMAIN tracks |->
     LET t == tracks[i]
         base == [trackId |-> t.trackId, bbox |-> GetBBox(t), score |-> R(1),
                  classId |-> 0, className |-> "vehicle", state |-> t.state,
                  age |-> t.age, hits |-> t.hits,
                  timeSinceUpdate |-> t.timeSinceUpdate]
     IN IF withAppearance
        THEN [trackId |-> base.trackId, bbox |-> base.bbox, score |-> base.score,
              classId |-> base.classId, className |-> base.className,
              state |-> base.state, age |-> base.age, hits |-> base.hits,
              timeSinceUpdate |-> base.timeSinceUpdate, appearance |-> t.appearance]
        ELSE base]

\* Each step of update takes the record o of the values computed so far and
\* adds the values it computes.

\* 1. Divide detections; 2. Predict tracks
Split(self, detections, appearances) ==
  [highDets |-> HighDets(detections, self.highThresh),
   lowDets |-> LowDets(detections, self.highThresh),
   highApps |-> SliceTo(appearances, Len(HighDets(detections, self.highThresh))),
   lowApps |-> SliceFrom(appearances, Len(HighDets(detections, self.highThresh))),
   predicted |-> PredictAll(self.tracks)]

ByteAssociateNone(self, o) ==
  o @@ [trackIndices1 |-> Keys(o.predicted), thresh1 |-> self.matchThresh,
        stage1 |-> Match(o.predicted, o.highDets, Keys(o.predicted),
                         Keys(o.highDets), R(2))]

\* 3. Match High Conf (ByteTracker)
ByteAssociate(self, o) ==
  o @@ [trackIndices1 |-> Keys(o.predicted), thresh1 |-> self.matchThresh,
        stage1 |-> Match(o.predicted, o.highDets, Keys(o.predicted),
                         Keys(o.highDets), self.matchThresh)]

\* 3. Match High Conf with Appearance (BoTSORT)
BotAssociate(self, o) ==
  o @@ [trackIndices1 |-> Keys(o.predicted), thresh1 |-> self.matchThresh,
        stage1 |-> MatchWithAppearance(o.predicted, o.highDets, Keys(o.predicted),
                                       Keys(o.highDets), self.matchThresh,
                                       o.highApps, self.appearanceWeight)]

\* Update matched tracks; the track indices for the second association
AfterStage1(o) ==
  o @@ [t1 |-> ApplyUpdates(o.predicted, o.stage1.matches, o.highDets, o.highApps, 1),
        trackIndices2 |-> Stage2Tracks(o.trackIndices1, o.stage1.unmatchedTracks)]

\* 4. Match Low Conf with Unmatched Tracks (ByteTracker)
ByteRecover(self, o) ==
  o @@ [thresh2 |-> self.matchThresh,
        stage2 |-> Match(o.t1, o.lowDets, o.trackIndices2, Keys(o.lowDets),
                         self.matchThresh)]

\* 4. Re-ID with low detections, threshold matchThresh * 0.7 (BoTSORT)
BotRecover(self, o) ==
  o @@ [thresh2 |-> RMul(self.matchThresh, Frac(7, 10)),
        stage2 |-> MatchWithAppearance(o.t1, o.lowDets, o.trackIndices2,
                                       Keys(o.lowDets),
                                       RMul(self.matchThresh, Frac(7, 10)),
                                       o.lowApps, self.appearanceWeight)]

AfterStage2Skip(o) == o @@ [t2 |-> o.t1]

\* Update matched low-conf tracks
AfterStage2(o) ==
  o @@ [t2 |-> ApplyUpdates(o.t1, o.stage2.matches, o.lowDets, o.lowApps, 1)]

SpawnStepPredicted(o, cnt) ==
  o @@ [post |-> o.t2 \o PredictAll(SubSeq(Spawn(o.t2, o.stage1.unmatchedDets, o.highDets,
                                                 o.highApps, cnt),
                                           Len(o.t2) + 1,
                                           Len(o.t2) + Len(o.stage1.unmatchedDets))),
        count |-> CountAfter(cnt, Len(o.stage1.unmatchedDets))]

\* 5. Create new tracks from Unmatched High Conf Dets
SpawnStep(o, cnt) ==
  o @@ [post |-> Spawn(o.t2, o.stage1.unmatchedDets, o.highDets, o.highApps, cnt),
        count |-> CountAfter(cnt, Len(o.stage1.unmatchedDets))]

\* 6. Remove lost tracks
PruneStep(self, o) == o @@ [tracks |-> Prune(o.post, self.trackBufferFrames)]

\* Return tracks
EmitStep(o, withAppearance) == o @@ [emitted |-> Emit(o.tracks, withAppearance)]

\* ByteTracker.update(detections), cnt = KalmanBoxTracker.count at the call
ByteCycle(self, detections, cnt) ==
  EmitStep(
    PruneStep(self,
      SpawnStep(
        AfterStage2(
          ByteRecover(self,
            AfterStage1(
              ByteAssociate(self, Split(self, detections, <<>>))))),
        cnt)),
    FALSE)

\* appearances = detections.map(d => this.extractAppearance(imageData, d.bbox))
\* when a video frame is given, [] otherwise
Appearances(detections, videoFrame) ==
  IF videoFrame.present
  THEN [i \in DOMAIN detections |-> ExtractAppearance(videoFrame, detections[i].bbox)]
  ELSE <<>>

\* BoTSORT.update(detections, videoFrame)
BotCycle(self, detections, videoFrame, cnt) ==
  EmitStep(
    PruneStep(self,
      SpawnStep(
        AfterStage2(
          BotRecover(self,
            AfterStage1(
              BotAssociate(self,
                Split(self, detections, Appearances(detections, videoFrame)))))),
        cnt)),
    TRUE)

-----------------------------------------------------------------------------
(* Inputs explored *)

\* Boxes of one size on a line.  IoU is 1/2 between x = 2 and x = 3, 1/5
\* between x = 0 and x = 2 (below matchThresh = 0.25, above 0.7 * matchThresh)
\* and 0 between x = 0 and x = 3.
BoxAt(x) == <<R(x), R(0), R(3), R(3)>>

\* The detections a frame can contain: two confident ones of different
\* categories that overlap each other, and two weak ones.
Dets ==
  {[bbox |-> BoxAt(2), score |-> Frac(9, 10), className |-> "car"],
   [bbox |-> BoxAt(3), score |-> Frac(9, 10), className |-> "person"],
   [bbox |-> BoxAt(3), score |-> Frac(3, 10), className |-> "car"],
   [bbox |-> BoxAt(0), score |-> Frac(3, 10), className |-> "person"]}

DetLists == UNION {[1..n -> Dets] : n \in 0..MaxDets}

\* frames with no detection, one confident detection or one weak detection
ShortLists ==
  {<<>>,
   <<[bbox |-> BoxAt(2), score |-> Frac(9, 10), className |-> "car"]>>,
   <<[bbox |-> BoxAt(3), score |-> Frac(3, 10), className |-> "car"]>>}

\* a frame 3 pixels wide: the box at x = 3 lies outside it
Frames == {NoFrame, [present |-> TRUE, width |-> 3, height |-> 3, bin |-> 1]}

\* a frame 6 pixels wide, which holds every box
WideFrames == {NoFrame, [present |-> TRUE, width |-> 6, height |-> 3, bin |-> 1]}

\* trackBufferFrames is a public field (30 in ByteTracker, 40 in BoTSORT until
\* the host assigns its configured value).  The values explored are small, so
\* that a track is lost and removed within the cycles explored.
BufferChoices == {1, 2}

-----------------------------------------------------------------------------
(* State *)

\* count   : KalmanBoxTracker.count (static, shared by every tracker)
\* byte    : the ByteTracker instance, bot : the BoTSORT instance
\* last    : observation of the most recent update call (its input, the
\*           intermediate results of the call and the returned list)
\* created : history of constructor calls, in order: the id given, the
\*           category of the seeding detection, the owning tracker, the
\*           number of consecutive cycles of the owner since the track was
\*           last matched (counted up to trackBufferFrames + 2) and whether
\*           that number has reached trackBufferFrames + 1
\* host    : the host loop of the component that owns the tracker: the
\*           position of each processFrame invocation, the invocation that
\*           occupies the JavaScript thread (0: none), the local `detections'
\*           of each invocation, frameCounterRef, and the values computed so
\*           far by the tracker.update call in progress

EmptyResult == [matches |-> <<>>, unmatchedTracks |-> <<>>, unmatchedDets |-> <<>>]

NoCycle ==
  [who |-> "none", detections |-> <<>>, videoFrame |-> NoFrame, pre |-> <<>>,
   countBefore |-> 0, trackBufferFrames |-> 0, highThresh |-> R(0),
   highDets |-> <<>>, lowDets |-> <<>>, highApps |-> <<>>, lowApps |-> <<>>,
   predicted |-> <<>>,
   trackIndices1 |-> <<>>, thresh1 |-> R(0), stage1 |-> EmptyResult, t1 |-> <<>>,
   trackIndices2 |-> <<>>, thresh2 |-> R(0), stage2 |-> EmptyResult, t2 |-> <<>>,
   post |-> <<>>, count |-> 0, tracks |-> <<>>, emitted |-> <<>>]

\* what is recorded of one update call: its receiver and arguments, and c,
\* the values computed in it
Observe(who, self, detections, videoFrame, cnt, c) ==
  c @@ [who |-> who, detections |-> detections, videoFrame |-> videoFrame,
        pre |-> self.tracks, countBefore |-> cnt,
        trackBufferFrames |-> self.trackBufferFrames,
        highThresh |-> self.highThresh]

Min(a, b) == IF a < b THEN a ELSE b

\* indices (into the tracks held at the start of the cycle) updated in the cycle
MatchedIn(c) ==
  {m[1] : m \in Range(c.stage1.matches) \cup Range(c.stage2.matches)}

\* the history entry e after a cycle of its owner in which the tracks with
\* the ids matchedIds were updated
Aged(e, matchedIds, cap) ==
  IF e.trackId \in matchedIds THEN [e EXCEPT !.misses = 0, !.run = e.run + 1]
  ELSE [e EXCEPT !.misses = Min(e.misses + 1, cap + 1), !.run = 0,
                 !.evicted = e.evicted \/ e.misses + 1 >= cap]

\* category of the detection handed to the k-th constructor call of the cycle
SeedClass(c, k) ==
  IF k \in DOMAIN c.stage1.unmatchedDets
  THEN c.highDets[c.stage1.unmatchedDets[k]].className
  ELSE "unknown"

HistoryOf(who, c, matchedIds, cap) ==
  [k \in DOMAIN created |->
     IF created[k].owner = who THEN Aged(created[k], matchedIds, cap) ELSE created[k]]
  \o
  [k \in 1..(Len(c.post) - Len(c.predicted)) |->
     [trackId |-> c.post[Len(c.predicted) + k].trackId,
      className |-> SeedClass(c, k),
      owner |-> who, misses |-> 0, run |-> 0, evicted |-> FALSE]]

History(who, self, c) ==
  HistoryOf(who, c, {c.predicted[i].trackId : i \in MatchedIn(c)},
            self.trackBufferFrames + 1)

\* the inline tracker of src/index.tsx before the first frame: tracksRef,
\* lastFrameTime and frameCounterRef; times are milliseconds counted from the
\* value Date.now() had when the component was mounted
InlineOff == [tracks |-> <<>>, lastFrameTime |-> 0, frameCounter |-> 0]

\* the Array objects that have been the state of a ByteTracker track, in
\* order of allocation (a reference is a position in `arrays'), the
\* reference each held track has in its field `state', and the records
\* returned so far, each with the reference it has in its field `state'
SnapOff == [arrays |-> <<>>, held |-> <<>>, emitted |-> <<>>]

\* the ByteTracker of src/unnamed/part_004 after construction (tracks, nextId,
\* maxAge, minHits, iouThreshold), with three observations of the most recent
\* call of update: the array it returned, the [trackIdx, detIdx] pairs that
\* associate() matched, and the tracks its filter removed
HitsTrackerNew ==
  [tracks |-> <<>>, nextId |-> 1, maxAge |-> 30, minHits |-> 3,
   iouThreshold |-> Frac(3, 10), returned |-> <<>>, matched |-> <<>>,
   removed |-> <<>>]

\* the YoloDetector before detect() has returned: the predictions it handed
\* to nms and the array nms returned
DetectorIdle == [ran |-> FALSE, predictions |-> <<>>, selected |-> <<>>]

\* the host loop before it is started
HostOff ==
  [pc |-> [i \in 1..MaxInvocations |-> "done"], running |-> 0,
   detections |-> [i \in 1..MaxInvocations |-> <<>>], frameCounter |-> 0,
   detectionSkip |-> 1, poseEstimationEnabled |-> FALSE, cycle |-> NoCycle]

\* Both trackers are constructed and given one configured trackBufferFrames;
\* highThresh, matchThresh and appearanceWeight keep their initial values.
Init ==
  /\ count = 0
  /\ \E b \in BufferChoices :
       /\ byte = [tracks |-> <<>>, frameId |-> 0, highThresh |-> Frac(1, 2),
                  matchThresh |-> Frac(1, 4), trackBufferFrames |-> b]
       /\ bot = [tracks |-> <<>>, frameId |-> 0, highThresh |-> Frac(3, 5),
                 matchThresh |-> Frac(1, 4), trackBufferFrames |-> b,
                 appearanceWeight |-> Frac(1, 2)]
  /\ last = NoCycle
  /\ created = <<>>
  /\ host = HostOff
  /\ inline = InlineOff
  /\ snap = SnapOff
  /\ hitsTracker = HitsTrackerNew
  /\ detector = DetectorIdle

ByteCommit(detections, c) ==
  /\ byte' = [byte EXCEPT !.frameId = @ + 1, !.tracks = c.tracks]
  /\ count' = c.count
  /\ last' = Observe("byte", byte, detections, NoFrame, count, c)
  /\ created' = History("byte", byte, c)
  /\ UNCHANGED <<bot, inline, hitsTracker, detector>>

\* tracker.update(detections) on the ByteTracker, detections drawn from lists
ByteUpdateOf(lists, maxFrames) ==
  /\ byte.frameId + bot.frameId < maxFrames
  /\ UNCHANGED <<host, snap>>
  /\ \E detections \in lists :
       ByteCommit(detections, ByteCycle(byte, detections, count))

BotCommit(detections, videoFrame, c) ==
  /\ bot' = [bot EXCEPT !.frameId = @ + 1, !.tracks = c.tracks]
  /\ count' = c.count
  /\ last' = Observe("bot", bot, detections, videoFrame, count, c)
  /\ created' = History("bot", bot, c)
  /\ UNCHANGED <<byte, inline, hitsTracker, detector>>

\* tracker.update(detections, videoFrame) on the BoTSORT
BotUpdateOf(lists, frames, maxFrames) ==
  /\ byte.frameId + bot.frameId < maxFrames
  /\ UNCHANGED <<host, snap>>
  /\ \E detections \in lists, videoFrame \in frames :
       BotCommit(detections, videoFrame, BotCycle(bot, detections, videoFrame, count))

ByteUpdate == ByteUpdateOf(DetLists, MaxFrames)

BotUpdate == BotUpdateOf(DetLists, Frames, MaxFrames)

Next == ByteUpdate \/ BotUpdate

Spec == Init /\ [][Next]_vars

\* Longer runs over frames that hold at most one detection.
LongByteUpdate == ByteUpdateOf(ShortLists, MaxLongFrames)

LongBotUpdate == BotUpdateOf(ShortLists, WideFrames, MaxLongFrames)

LongNext == LongByteUpdate \/ LongBotUpdate

SpecLong == Init /\ [][LongNext]_vars

-----------------------------------------------------------------------------
(* The ByteTracker of src/unnamed/part_004 (minHits / maxAge) *)

\* ids the tracker may hand out before the model stops creating tracks
MaxHitsIds == 4

\* body of this.tracks.forEach in predict(deltaTime)
HitsPredict(track, deltaTime) ==
  LET x == RAdd(track.kalmanState.x, RMul(track.kalmanState.vx, deltaTime))
      y == RAdd(track.kalmanState.y, RMul(track.kalmanState.vy, deltaTime))
  IN [track EXCEPT !.age = @ + 1,
                   !.kalmanState = [@ EXCEPT !.x = x, !.y = y],
                   !.bbox = <<RSub(x, RDiv(track.bbox[3], R(2))),
                              RSub(y, RDiv(track.bbox[4], R(2))),
                              track.bbox[3], track.bbox[4]>>]

CalculateIoU(boxA, boxB) ==
  IouOf(InterArea(RMax(boxA[1], boxB[1]), RMax(boxA[2], boxB[2]),
                  RMin(RAdd(boxA[1], boxA[3]), RAdd(boxB[1], boxB[3])),
                  RMin(RAdd(boxA[2], boxA[4]), RAdd(boxB[2], boxB[4]))),
        RMul(boxA[3], boxA[4]), RMul(boxB[3], boxB[4]))

\* associate(detections): the pairs with IoU > iouThreshold, track index
\* outer, detection index inner, sorted by IoU descending (stable) and
\* accepted greedily; indices are 1-based here
HitsAssociate(tracks, detections, iouThreshold) ==
  IF Len(tracks) = 0
  THEN [matches |-> <<>>, unmatchedTracks |-> <<>>,
        unmatchedDets |-> Keys(detections)]
  ELSE LET nD == Len(detections)
           all == [k \in 1..(Len(tracks) * nD) |->
                     LET i == ((k - 1) \div nD) + 1
                         j == ((k - 1) % nD) + 1
                     IN [tIdx |-> i, dIdx |-> j,
                         score |-> CalculateIoU(tracks[i].bbox, detections[j].bbox)]]
       IN Assign(SelectSeq(all, LAMBDA c : RGt(c.score, iouThreshold)),
                 Keys(tracks), Keys(detections))

UpdateTrackResetAge(track, detection) ==
  [track EXCEPT !.bbox = detection.bbox, !.score = detection.score,
                !.consecutiveFrames = @ + 1, !.totalFrames = @ + 1,
                !.state = "tracked", !.age = 0]

\* updateTrack(track, detection), alpha = 0.7
UpdateTrack(track, detection) ==
  LET cx == RAdd(detection.bbox[1], RDiv(detection.bbox[3], R(2)))
      cy == RAdd(detection.bbox[2], RDiv(detection.bbox[4], R(2)))
      k == track.kalmanState
  IN [track EXCEPT
        !.kalmanState =
          [x |-> cx, y |-> cy,
           vx |-> RAdd(RMul(Frac(7, 10), k.vx),
                       RMul(RSub(R(1), Frac(7, 10)), RSub(cx, k.x))),
           vy |-> RAdd(RMul(Frac(7, 10), k.vy),
                       RMul(RSub(R(1), Frac(7, 10)), RSub(cy, k.y)))],
        !.bbox = detection.bbox, !.score = detection.score,
        !.consecutiveFrames = @ + 1, !.totalFrames = @ + 1,
        !.state = "tracked"]

InitTrackConfirmed(detection, id) ==
  [id |-> id, bbox |-> detection.bbox, score |-> detection.score,
   class |-> detection.class, age |-> 0, totalFrames |-> 1,
   consecutiveFrames |-> 3, state |-> "tracked", velocity |-> <<R(0), R(0)>>,
   kalmanState |->
     [x |-> RAdd(detection.bbox[1], RDiv(detection.bbox[3], R(2))),
      y |-> RAdd(detection.bbox[2], RDiv(detection.bbox[4], R(2))),
      vx |-> R(0), vy |-> R(0)]]

\* the track initTrack(detection) pushes; id is this.nextId++
InitTrack(detection, id) ==
  [id |-> id, bbox |-> detection.bbox, score |-> detection.score,
   class |-> detection.class, age |-> 0, totalFrames |-> 1,
   consecutiveFrames |-> 1, state |-> "tracked", velocity |-> <<R(0), R(0)>>,
   kalmanState |->
     [x |-> RAdd(detection.bbox[1], RDiv(detection.bbox[3], R(2))),
      y |-> RAdd(detection.bbox[2], RDiv(detection.bbox[4], R(2))),
      vx |-> R(0), vy |-> R(0)]]

\* matched.forEach(updateTrack) and unmatchedTracks.forEach(mark as lost)
HitsSettle(predicted, a, detections) ==
  [i \in DOMAIN predicted |->
     IF \E m \in Range(a.matches) : m[1] = i
     THEN UpdateTrack(predicted[i],
                      detections[(CHOOSE m \in Range(a.matches) : m[1] = i)[2]])
     ELSE [predicted[i] EXCEPT !.consecutiveFrames = 0, !.state = "lost"]]

\* the part of update() after the unmatched tracks are marked: initTrack for
\* the unmatched detections, the two filters and the return value
HitsFinish(self, settled, a, detections) ==
  LET all == settled \o [k \in DOMAIN a.unmatchedDets |->
                           InitTrack(detections[a.unmatchedDets[k]],
                                     self.nextId + k - 1)]
      kept == SelectSeq(all, LAMBDA t :
                /\ t.age < self.maxAge
                /\ (t.state = "tracked" \/ t.consecutiveFrames >= self.minHits))
  IN [self EXCEPT
        !.tracks = kept,
        !.nextId = @ + Len(a.unmatchedDets),
        !.returned = SelectSeq(kept, LAMBDA t :
                       t.state = "tracked" /\ t.consecutiveFrames >= self.minHits),
        !.matched = a.matches,
        !.removed = SelectSeq(all, LAMBDA t :
                      ~(/\ t.age < self.maxAge
                        /\ (t.state = "tracked"
                              \/ t.consecutiveFrames >= self.minHits)))]

\* update(detections, deltaTime)
HitsCycle(self, detections, deltaTime) ==
  LET predicted == [i \in DOMAIN self.tracks |->
                      HitsPredict(self.tracks[i], deltaTime)]
      a == HitsAssociate(predicted, detections, self.iouThreshold)
  IN HitsFinish(self, HitsSettle(predicted, a, detections), a, detections)

\* One call of update with the default deltaTime = 0.033.  A frame holds up
\* to MaxDets detections, each at one of two places that do not overlap
\* (IoU 0), so a matched detection has the centre of its track.
HitsUpdate ==
  /\ \E detections \in UNION {[1..n -> {[bbox |-> BoxAt(0), score |-> Frac(9, 10),
                                          class |-> "car", classId |-> 2],
                                         [bbox |-> BoxAt(3), score |-> Frac(9, 10),
                                          class |-> "car", classId |-> 2]}] :
                                n \in 0..MaxDets} :
       /\ hitsTracker.nextId + Len(detections) <= MaxHitsIds
       /\ hitsTracker' = HitsCycle(hitsTracker, detections, Frac(33, 1000))
  /\ UNCHANGED <<count, byte, bot, last, created, host, inline, snap, detector>>

SpecHits == Init /\ [][HitsUpdate]_vars

-----------------------------------------------------------------------------
(* YoloDetector.nms and nmsPose of src/yolo-tracker.ts *)

\* the longest list of predictions handed to nms
MaxPredictions == 3

RECURSIVE NmsSelectLoose(_, _, _)
NmsSelectLoose(detections, selected, iouThresh) ==
  IF Len(detections) = 0 THEN selected
  ELSE NmsSelectLoose(SelectSeq(Tail(detections), LAMBDA d :
                        ~RGt(Iou(Head(detections).bbox, d.bbox), iouThresh)),
                      Append(selected, Head(detections)), iouThresh)

\* while (detections.length > 0) { current = detections.shift();
\* selected.push(current); detections = detections.filter(d =>
\* iou(current.bbox, d.bbox) < iouThresh) }
RECURSIVE NmsSelect(_, _, _)
NmsSelect(detections, selected, iouThresh) ==
  IF Len(detections) = 0 THEN selected
  ELSE NmsSelect(SelectSeq(Tail(detections), LAMBDA d :
                   RLt(Iou(Head(detections).bbox, d.bbox), iouThresh)),
                 Append(selected, Head(detections)), iouThresh)

\* nms(detections, iouThresh): detections.sort((a, b) => b.score - a.score),
\* the comparator and the stable sort of SortCandidates, then the loop
Nms(detections, iouThresh) == NmsSelect(SortCandidates(detections), <<>>, iouThresh)

\* The end of detect() and of detectPose(): return this.nms(predictions) with
\* the default iouThresh = 0.45.  nms keeps nothing between calls, so one
\* call is taken.  The predictions are boxes of height 1: two of width 29
\* whose IoU is exactly 0.45 (18 / 40), a third that overlaps both by more,
\* and one of width 0, whose IoU with itself is 0 / 0; scores lie above the
\* confidence threshold.
DetectReturn ==
  /\ ~detector.ran
  /\ \E predictions \in
        UNION {[1..n -> [bbox : {<<R(0), R(0), R(29), R(1)>>,
                                 <<R(11), R(0), R(29), R(1)>>,
                                 <<R(1), R(0), R(29), R(1)>>,
                                 <<R(0), R(0), R(0), R(1)>>},
                         score : {Frac(9, 10), Frac(1, 2)},
                         classId : {2}, className : {"car"}]] :
                 n \in 0..MaxPredictions} :
       detector' = [ran |-> TRUE, predictions |-> predictions,
                    selected |-> Nms(predictions, Frac(9, 20))]
  /\ UNCHANGED <<count, byte, bot, last, created, host, inline, snap, hitsTracker>>

SpecNms == Init /\ [][DetectReturn]_vars

-----------------------------------------------------------------------------
(* The host loop: processFrame, started on every animation frame *)

\* Positions of a processFrame invocation:
\*   "start"   scheduled by requestAnimationFrame, not yet begun
\*   "detect"  suspended at  await detectorRef.current.detect(...)
\*   "pose"    suspended at  await detectorRef.current.detectPose(...)
\*   "predict" about to call trackerRef.current.update(detections)
\*   "stage1", "stage2", "spawn", "prune", "emit"  inside update, before the
\*             step of that name
\*   "done"    returned

SuspensionPointsInUpdate == {"detect", "pose", "stage2"}

\* the positions at which an invocation gives up the thread: the awaits
SuspensionPoints == {"detect", "pose"}

InUpdate == {"stage1", "stage2", "spawn", "prune", "emit"}

\* JavaScript runs one job to completion: invocation i takes a step when it
\* occupies the thread, or when the thread is free and i is suspended at an
\* await whose promise resolves, or is the next one requestAnimationFrame starts
HostMayStep(i) ==
  \/ host.running = i
  \/ /\ host.running = 0
     /\ \/ host.pc[i] \in SuspensionPoints
        \/ (host.pc[i] = "start" /\ \A j \in 1..(i - 1) : host.pc[j] # "start")

\* invocation i moves to position pc2; it keeps the thread unless pc2 is an
\* await or the return
Moved(i, pc2) ==
  [host EXCEPT !.pc[i] = pc2,
               !.running = IF pc2 \in SuspensionPoints \cup {"done"} THEN 0 ELSE i]

\* processFrame up to its first await: the early returns (no video, not
\* playing), frameCounterRef.current++, runInference; without inference the
\* invocation only draws and returns
ProcessFrameStart(i) ==
  /\ host.pc[i] = "start"
  /\ HostMayStep(i)
  /\ \E ready \in BOOLEAN :
       host' = IF ~ready THEN Moved(i, "done")
               ELSE [Moved(i, IF (host.frameCounter + 1) % host.detectionSkip = 0
                              THEN "detect" ELSE "done")
                       EXCEPT !.frameCounter = host.frameCounter + 1]
  /\ UNCHANGED <<count, byte, bot, last, created, inline, snap, hitsTracker,
                 detector>>

\* detections = await detect(...): the promise resolves with some detections
DetectResolved(i) ==
  /\ host.pc[i] = "detect"
  /\ HostMayStep(i)
  /\ \E detections \in ShortLists :
       host' = [Moved(i, IF host.poseEstimationEnabled THEN "pose" ELSE "predict")
                  EXCEPT !.detections[i] = detections]
  /\ UNCHANGED <<count, byte, bot, last, created, inline, snap, hitsTracker,
                 detector>>

\* lastPosesRef.current = await detectPose(...)
PoseResolved(i) ==
  /\ host.pc[i] = "pose"
  /\ HostMayStep(i)
  /\ host' = Moved(i, "predict")
  /\ UNCHANGED <<count, byte, bot, last, created, inline, snap, hitsTracker,
                 detector>>

\* the tracker's fields are assigned the configured values (the values they
\* have), then update(detections) begins: divide detections, predict tracks
UpdatePredict(i) ==
  /\ host.pc[i] = "predict"
  /\ HostMayStep(i)
  /\ host' = [Moved(i, "stage1") EXCEPT !.cycle = Split(byte, host.detections[i], <<>>)]
  /\ UNCHANGED <<count, byte, bot, last, created, inline, snap, hitsTracker,
                 detector>>

UpdateStage1(i) ==
  /\ host.pc[i] = "stage1"
  /\ HostMayStep(i)
  /\ host' = [Moved(i, "stage2") EXCEPT !.cycle = AfterStage1(ByteAssociate(byte, host.cycle))]
  /\ UNCHANGED <<count, byte, bot, last, created, inline, snap, hitsTracker,
                 detector>>

UpdateStage2(i) ==
  /\ host.pc[i] = "stage2"
  /\ HostMayStep(i)
  /\ host' = [Moved(i, "spawn") EXCEPT !.cycle = AfterStage2(ByteRecover(byte, host.cycle))]
  /\ UNCHANGED <<count, byte, bot, last, created, inline, snap, hitsTracker,
                 detector>>

UpdateSpawn(i) ==
  /\ host.pc[i] = "spawn"
  /\ HostMayStep(i)
  /\ host' = [Moved(i, "prune") EXCEPT !.cycle = SpawnStep(host.cycle, count)]
  /\ UNCHANGED <<count, byte, bot, last, created, inline, snap, hitsTracker,
                 detector>>

UpdatePrune(i) ==
  /\ host.pc[i] = "prune"
  /\ HostMayStep(i)
  /\ host' = [Moved(i, "emit") EXCEPT !.cycle = PruneStep(byte, host.cycle)]
  /\ UNCHANGED <<count, byte, bot, last, created, inline, snap, hitsTracker,
                 detector>>

\* update returns the records; the rest of processFrame draws them
UpdateEmit(i) ==
  /\ host.pc[i] = "emit"
  /\ HostMayStep(i)
  /\ host' = Moved(i, "done")
  /\ ByteCommit(host.detections[i], EmitStep(host.cycle, FALSE))
  /\ UNCHANGED snap

\* the loop has scheduled MaxInvocations invocations; the host is configured
\* with a detectionSkip and with pose estimation on or off
HostInit ==
  /\ count = 0
  /\ \E b \in BufferChoices :
       /\ byte = [tracks |-> <<>>, frameId |-> 0, highThresh |-> Frac(1, 2),
                  matchThresh |-> Frac(1, 4), trackBufferFrames |-> b]
       /\ bot = [tracks |-> <<>>, frameId |-> 0, highThresh |-> Frac(3, 5),
                 matchThresh |-> Frac(1, 4), trackBufferFrames |-> b,
                 appearanceWeight |-> Frac(1, 2)]
  /\ last = NoCycle
  /\ created = <<>>
  /\ inline = InlineOff
  /\ snap = SnapOff
  /\ hitsTracker = HitsTrackerNew
  /\ detector = DetectorIdle
  /\ \E skip \in {1, 2}, pose \in BOOLEAN :
       host = [HostOff EXCEPT !.pc = [i \in 1..MaxInvocations |-> "start"],
                              !.detectionSkip = skip,
                              !.poseEstimationEnabled = pose]

HostNext ==
  \E i \in 1..MaxInvocations :
    \/ ProcessFrameStart(i)
    \/ DetectResolved(i)
    \/ PoseResolved(i)
    \/ UpdatePredict(i)
    \/ UpdateStage1(i)
    \/ UpdateStage2(i)
    \/ UpdateSpawn(i)
    \/ UpdatePrune(i)
    \/ UpdateEmit(i)

SpecHost == HostInit /\ [][HostNext]_vars

\* Runs over the boxes of the worked example: a track created from
\* [100, 100, 50, 80] and a detection [105, 102, 52, 78], both confident.
ScenarioTrackBox == <<R(100), R(100), R(50), R(80)>>

ScenarioDetBox == <<R(105), R(102), R(52), R(78)>>

ScenarioDets ==
  {[bbox |-> ScenarioTrackBox, score |-> Frac(9, 10), className |-> "car"],
   [bbox |-> ScenarioDetBox, score |-> Frac(9, 10), className |-> "car"]}

ScenarioLists == UNION {[1..n -> ScenarioDets] : n \in 0..MaxDets}

\* a frame that holds both boxes
ScenarioFrames == {NoFrame, [present |-> TRUE, width |-> 200, height |-> 200, bin |-> 1]}

ScenarioByteUpdate == ByteUpdateOf(ScenarioLists, MaxScenarioFrames)

ScenarioBotUpdate == BotUpdateOf(ScenarioLists, ScenarioFrames, MaxScenarioFrames)

ScenarioNext == ScenarioByteUpdate \/ ScenarioBotUpdate

SpecScenario == Init /\ [][ScenarioNext]_vars

\* The earlier ByteTracker (src/unnamed/part_005): the same cycle with the
\* literal thresholds 0.2 and 0.5 and the literal buffer 30.
LegacyAssociate(o) ==
  o @@ [trackIndices1 |-> Keys(o.predicted), thresh1 |-> Frac(1, 5),
        stage1 |-> Match(o.predicted, o.highDets, Keys(o.predicted),
                         Keys(o.highDets), Frac(1, 5))]

LegacyRecover(o) ==
  o @@ [thresh2 |-> Frac(1, 2),
        stage2 |-> Match(o.t1, o.lowDets, o.trackIndices2, Keys(o.lowDets),
                         Frac(1, 2))]

LegacyCycle(self, detections, cnt) ==
  EmitStep(
    PruneStep(self,
      SpawnStep(
        AfterStage2(
          LegacyRecover(
            AfterStage1(
              LegacyAssociate(Split(self, detections, <<>>))))),
        cnt)),
    FALSE)

\* `byte' holds the earlier tracker; no BoTSORT exists in that file
LegacyInit ==
  /\ count = 0
  /\ byte = [tracks |-> <<>>, frameId |-> 0, highThresh |-> Frac(1, 2),
             matchThresh |-> Frac(4, 5), trackBufferFrames |-> 30]
  /\ bot = [tracks |-> <<>>, frameId |-> 0, highThresh |-> Frac(3, 5),
            matchThresh |-> Frac(1, 4), trackBufferFrames |-> 30,
            appearanceWeight |-> Frac(1, 2)]
  /\ last = NoCycle
  /\ created = <<>>
  /\ host = HostOff
  /\ inline = InlineOff
  /\ snap = SnapOff
  /\ hitsTracker = HitsTrackerNew
  /\ detector = DetectorIdle

LegacyUpdate ==
  /\ byte.frameId < MaxFrames
  /\ UNCHANGED <<host, snap>>
  /\ \E detections \in DetLists :
       ByteCommit(detections, LegacyCycle(byte, detections, count))

SpecLegacy == LegacyInit /\ [][LegacyUpdate]_vars

\* Longer runs of trackers that keep a track through two missed cycles.
PatientInit ==
  /\ count = 0
  /\ byte = [tracks |-> <<>>, frameId |-> 0, highThresh |-> Frac(1, 2),
             matchThresh |-> Frac(1, 4), trackBufferFrames |-> 3]
  /\ bot = [tracks |-> <<>>, frameId |-> 0, highThresh |-> Frac(3, 5),
            matchThresh |-> Frac(1, 4), trackBufferFrames |-> 3,
            appearanceWeight |-> Frac(1, 2)]
  /\ last = NoCycle
  /\ created = <<>>
  /\ host = HostOff
  /\ inline = InlineOff
  /\ snap = SnapOff
  /\ hitsTracker = HitsTrackerNew
  /\ detector = DetectorIdle

SpecPatient == PatientInit /\ [][LongNext]_vars

\* Runs of the ByteTracker with the identity of the state arrays.

PredictedRefSame(ref, fresh) == ref

\* this.state = newState: after predict() the field refers to a new array
PredictedRef(ref, fresh) == fresh

\* The heap after cycle c of a tracker with trackBufferFrames = buffer.
\*   refs    the reference of each track after the spawn step: the arrays
\*           made by predict() for the tracks held, then those made by the
\*           constructor
\*   arrays  update() writes this.state[0..3] of the array the track refers
\*           to; every other array is left as it is
\*   kept    the references that pass the filter of step 6; the record
\*           returned for a track holds state: t.state
HeapAfter(h, c, buffer) ==
  LET refs == [i \in DOMAIN c.post |->
                 IF i <= Len(c.predicted)
                 THEN PredictedRef(h.held[i], Len(h.arrays) + i)
                 ELSE Len(h.arrays) + i]
      arrays == [r \in 1..(Len(h.arrays) + Len(c.post)) |->
                   IF \E i \in DOMAIN c.predicted : refs[i] = r
                   THEN c.post[CHOOSE i \in DOMAIN c.predicted : refs[i] = r].state
                   ELSE IF r > Len(h.arrays) THEN c.post[r - Len(h.arrays)].state
                   ELSE h.arrays[r]]
      kept == Prune([i \in DOMAIN c.post |->
                       [ref |-> refs[i], timeSinceUpdate |-> c.post[i].timeSinceUpdate]],
                    buffer)
  IN  [arrays |-> arrays,
       held |-> [k \in DOMAIN kept |-> kept[k].ref],
       emitted |-> h.emitted \o
                   [k \in DOMAIN c.emitted |-> [ref |-> kept[k].ref, record |-> c.emitted[k]]]]

SnapshotUpdate ==
  /\ byte.frameId < MaxLongFrames
  /\ UNCHANGED host
  /\ \E detections \in ShortLists :
       /\ ByteCommit(detections, ByteCycle(byte, detections, count))
       /\ snap' = HeapAfter(snap, ByteCycle(byte, detections, count),
                           byte.trackBufferFrames)

SpecSnapshot == Init /\ [][SnapshotUpdate]_vars

\* Runs with degenerate boxes: besides a well-formed confident detection, a
\* confident detection of negative width, one of height 0 and one of infinite
\* width, at most one detection per frame.
DegenerateBoxes ==
  {<<R(2), R(0), R(-3), R(3)>>, <<R(2), R(0), R(3), R(0)>>, <<R(2), R(0), <<1, 0>>, R(3)>>}

DegenerateLists ==
  {<<>>} \cup {<<[bbox |-> b, score |-> Frac(9, 10), className |-> "car"]>> :
                 b \in DegenerateBoxes \cup {BoxAt(2)}}

DegenerateByteUpdate == ByteUpdateOf(DegenerateLists, MaxFrames)

DegenerateBotUpdate == BotUpdateOf(DegenerateLists, WideFrames, MaxFrames)

DegenerateNext == DegenerateByteUpdate \/ DegenerateBotUpdate

SpecDegenerate == Init /\ [][DegenerateNext]_vars

\* The tracking block of processFrame in src/index.tsx (the inline tracker).
\* A track record keeps id, label, the last point (x, y), vx, vy, predictedX,
\* predictedY, w, h, age, missedFrames and confidence; the fields used only
\* for drawing and for the infraction log are left out.

\* [lx, ly, lw, lh] of a detection, for a video of 1000 x 1000 pixels
Logical(det) == [i \in 1..4 |-> RMul(RDiv(det.bbox[i], R(1000)), R(1000))]

\* the box of a track as handed to calculateIoU
PredictedBox(t) ==
  <<RSub(t.predictedX, RDiv(t.w, R(2))), RSub(t.predictedY, RDiv(t.h, R(2))), t.w, t.h>>

\* Kinematic update
Kinematic(t, deltaSeconds) ==
  [t EXCEPT !.predictedX = RAdd(t.x, RMul(t.vx, deltaSeconds)),
            !.predictedY = RAdd(t.y, RMul(t.vy, deltaSeconds))]

\* updateTrackProperties, dt = deltaSeconds || 0.033
UpdateTrackProperties(t, cx, cy, l, score, dt) ==
  [t EXCEPT !.vx = RAdd(RMul(t.vx, Frac(3, 5)), RMul(RDiv(RSub(cx, t.x), dt), Frac(2, 5))),
            !.vy = RAdd(RMul(t.vy, Frac(3, 5)), RMul(RDiv(RSub(cy, t.y), dt), Frac(2, 5))),
            !.x = RAdd(RMul(t.predictedX, Frac(3, 20)), RMul(cx, Frac(17, 20))),
            !.y = RAdd(RMul(t.predictedY, Frac(3, 20)), RMul(cy, Frac(17, 20))),
            !.w = RAdd(RMul(t.w, Frac(4, 5)), RMul(l[3], Frac(1, 5))),
            !.h = RAdd(RMul(t.h, Frac(4, 5)), RMul(l[4], Frac(1, 5))),
            !.age = t.age + 1, !.missedFrames = 0,
            !.confidence = RAdd(RMul(t.confidence, Frac(7, 10)), RMul(score, Frac(3, 10)))]

\* matchScore = (1 - iou) * 0.7 + (dist / 500) * 0.3
MatchScore(t, l, cx, cy) ==
  RAdd(RMul(RSub(R(1), Iou(PredictedBox(t), <<l[1], l[2], l[3], l[4]>>)), Frac(7, 10)),
       RMul(RDiv(RSqrt(RAdd(RMul(RSub(t.predictedX, cx), RSub(t.predictedX, cx)),
                            RMul(RSub(t.predictedY, cy), RSub(t.predictedY, cy)))),
                 R(500)),
            Frac(3, 10)))

\* the track the loop of stage 1 ends with for the detection with logical box
\* l: the first one of least matchScore among those below 0.8, 0 for null
BestTrack(st, label, l, cx, cy) ==
  LET free == {i \in DOMAIN st.tracks :
                 /\ st.tracks[i].id \notin st.matchedTracks
                 /\ st.tracks[i].label = label
                 /\ RLt(MatchScore(st.tracks[i], l, cx, cy), Frac(4, 5))}
  IN  IF free = {} THEN 0
      ELSE CHOOSE i \in free :
             \A j \in free :
               \/ RLt(MatchScore(st.tracks[i], l, cx, cy), MatchScore(st.tracks[j], l, cx, cy))
               \/ /\ ~RLt(MatchScore(st.tracks[j], l, cx, cy), MatchScore(st.tracks[i], l, cx, cy))
                  /\ i <= j

\* if (bestTrack) { matchedTracks.add; matchedDets.add; updateTrackProperties }
Stage1Take(st, best, d, det, l, cx, cy, dt) ==
  IF best = 0 THEN st
  ELSE [st EXCEPT !.matchedTracks = @ \cup {st.tracks[best].id},
                  !.matchedDets = @ \cup {d},
                  !.tracks[best] = UpdateTrackProperties(@, cx, cy, l, det.score, dt)]

RECURSIVE InlineStage1(_, _, _, _)
\* STAGE 1: Match high-confidence detections, from detection d on
InlineStage1(st, highDets, dt, d) ==
  IF d > Len(highDets) THEN st
  ELSE InlineStage1(
         Stage1Take(st,
                    BestTrack(st, highDets[d].class, Logical(highDets[d]),
                              RAdd(Logical(highDets[d])[1], RDiv(Logical(highDets[d])[3], R(2))),
                              RAdd(Logical(highDets[d])[2], RDiv(Logical(highDets[d])[4], R(2)))),
                    d, highDets[d], Logical(highDets[d]),
                    RAdd(Logical(highDets[d])[1], RDiv(Logical(highDets[d])[3], R(2))),
                    RAdd(Logical(highDets[d])[2], RDiv(Logical(highDets[d])[4], R(2))),
                    dt),
         highDets, dt, d + 1)

\* the first track, not matched and of the detection's class, with IoU > 0.4
FirstOverlap(st, label, l) ==
  LET hit == {i \in DOMAIN st.tracks :
                /\ st.tracks[i].id \notin st.matchedTracks
                /\ st.tracks[i].label = label
                /\ RGt(Iou(PredictedBox(st.tracks[i]), <<l[1], l[2], l[3], l[4]>>), Frac(2, 5))}
  IN  IF hit = {} THEN 0 ELSE CHOOSE i \in hit : \A j \in hit : i <= j

RECURSIVE InlineStage2(_, _, _, _)
\* STAGE 2: Low-confidence matching, from detection d on
InlineStage2(st, lowDets, dt, d) ==
  IF d > Len(lowDets) THEN st
  ELSE LET l == Logical(lowDets[d])
           i == FirstOverlap(st, lowDets[d].class, l)
       IN  InlineStage2(
             IF i = 0 THEN st
             ELSE [st EXCEPT !.matchedTracks = @ \cup {st.tracks[i].id},
                             !.tracks[i] =
                               UpdateTrackProperties(@, RAdd(l[1], RDiv(l[3], R(2))),
                                                     RAdd(l[2], RDiv(l[4], R(2))),
                                                     l, lowDets[d].score, dt)],
             lowDets, dt, d + 1)

\* the track pushed for a detection: id = now + Math.floor(Math.random() * 1000)
InlineTrack(det, l, now, random) ==
  [id |-> now + random, label |-> det.class,
   x |-> RAdd(l[1], RDiv(l[3], R(2))), y |-> RAdd(l[2], RDiv(l[4], R(2))),
   vx |-> R(0), vy |-> R(0),
   predictedX |-> RAdd(l[1], RDiv(l[3], R(2))),
   predictedY |-> RAdd(l[2], RDiv(l[4], R(2))),
   w |-> l[3], h |-> l[4], age |-> 0, missedFrames |-> 0, confidence |-> det.score]

RECURSIVE InlineStage3(_, _, _, _, _)
\* STAGE 3: New track initiation, from detection d on; randoms[d] is the value
\* of Math.floor(Math.random() * 1000) drawn for detection d
InlineStage3(st, highDets, now, randoms, d) ==
  IF d > Len(highDets) THEN st
  ELSE LET l == Logical(highDets[d])
           isDuplicate ==
             \E i \in DOMAIN st.tracks :
               RGt(Iou(PredictedBox(st.tracks[i]), <<l[1], l[2], l[3], l[4]>>), Frac(1, 2))
       IN  InlineStage3(
             IF d \notin st.matchedDets /\ ~isDuplicate /\ RGt(l[3], R(15)) /\ RGt(l[4], R(15))
             THEN [st EXCEPT !.tracks = Append(@, InlineTrack(highDets[d], l, now, randoms[d]))]
             ELSE st,
             highDets, now, randoms, d + 1)

\* Inter-inference smoothing glide
Glide(t, matchedTracks, isInferenceFrame, persistence) ==
  IF t.id \notin matchedTracks
  THEN [t EXCEPT !.missedFrames = t.missedFrames + 1,
                 !.confidence = RSub(t.confidence, Frac(1, 20)),
                 !.x = IF t.missedFrames + 1 <= persistence THEN t.predictedX ELSE t.x,
                 !.y = IF t.missedFrames + 1 <= persistence THEN t.predictedY ELSE t.y]
  ELSE IF ~isInferenceFrame
  THEN [t EXCEPT !.x = t.predictedX, !.y = t.predictedY]
  ELSE t

\* the three stages, the glide and the final filter of tracksRef.current
InlineTracks(st, isInferenceFrame, persistence) ==
  SelectSeq([i \in DOMAIN st.tracks |->
               Glide(st.tracks[i], st.matchedTracks, isInferenceFrame, persistence)],
            LAMBDA t : /\ t.missedFrames < (IF persistence > 30 THEN persistence ELSE 30)
                       /\ RGt(t.confidence, Frac(1, 20)))

\* processFrame with inferParams = {confThreshold 0.25, detectionSkip,
\* persistence 60} on a playing video: now - lastFrameTime.current = delta,
\* `detections' is what the detector returns if this is an inference frame
InlineProcessFrame(self, delta, detectionSkip, detections, randoms) ==
  [lastFrameTime |-> self.lastFrameTime + delta,
   frameCounter |-> self.frameCounter + 1,
   tracks |->
     InlineTracks(
       InlineStage3(
         InlineStage2(
           InlineStage1(
             [tracks |-> [i \in DOMAIN self.tracks |->
                            Kinematic(self.tracks[i], Frac(delta, 1000))],
              matchedTracks |-> {}, matchedDets |-> {}],
             HighDets(IF (self.frameCounter + 1) % detectionSkip = 0 THEN detections ELSE <<>>,
                      Frac(1, 4)),
             IF delta = 0 THEN Frac(33, 1000) ELSE Frac(delta, 1000), 1),
           LowDets(IF (self.frameCounter + 1) % detectionSkip = 0 THEN detections ELSE <<>>,
                   Frac(1, 4)),
           IF delta = 0 THEN Frac(33, 1000) ELSE Frac(delta, 1000), 1),
         HighDets(IF (self.frameCounter + 1) % detectionSkip = 0 THEN detections ELSE <<>>,
                  Frac(1, 4)),
         self.lastFrameTime + delta, randoms, 1),
       (self.frameCounter + 1) % detectionSkip = 0, 60)]

\* what the detector can return (every score is above confThreshold): cars
\* at x = 0, x = 500 and x = 20, each 100 x 100, in any order and without
\* repetition
InlineLists ==
  LET dets ==
        {[bbox |-> <<R(0), R(0), R(100), R(100)>>, score |-> Frac(9, 10), class |-> "car"],
         [bbox |-> <<R(500), R(0), R(100), R(100)>>, score |-> Frac(9, 10), class |-> "car"],
         [bbox |-> <<R(20), R(0), R(100), R(100)>>, score |-> Frac(3, 5), class |-> "car"]}
  IN  {l \in UNION {[1..n -> dets] : n \in 0..MaxDets} :
         \A i, j \in DOMAIN l : i # j => l[i] # l[j]}

\* one frame, 40 ms after the one before, with detectionSkip 1 or 2; each
\* Math.floor(Math.random() * 1000) is 0 or 40
InlineFrame ==
  /\ inline.frameCounter < MaxInlineFrames
  /\ \E delta \in {40}, detectionSkip \in {1, 2}, detections \in InlineLists,
        randoms \in [1..MaxDets -> {0, 40}] :
       inline' = InlineProcessFrame(inline, delta, detectionSkip, detections, randoms)
  /\ UNCHANGED <<count, byte, bot, last, created, host, snap, hitsTracker,
                 detector>>

SpecInline == Init /\ [][InlineFrame]_vars

\* Runs in which the picture changes colour.  The BoTSORT is given a video
\* frame in every cycle: a frame of WideFrames with a list of ShortLists, or a
\* frame whose pixels all fall in the other histogram bin with one weak
\* detection that overlaps a track at x = 2 by IoU 1/5.
FarLists == {<<[bbox |-> BoxAt(0), score |-> Frac(3, 10), className |-> "person"]>>}

OtherFrames == {[present |-> TRUE, width |-> 6, height |-> 3, bin |-> 2]}

RecolouredBotUpdate == BotUpdateOf(FarLists, OtherFrames, MaxLongFrames)

FilmedBotUpdate == BotUpdateOf(ShortLists, WideFrames \ {NoFrame}, MaxLongFrames)

RecolourNext == LongByteUpdate \/ FilmedBotUpdate \/ RecolouredBotUpdate

SpecRecolour == Init /\ [][RecolourNext]_vars

-----------------------------------------------------------------------------
(* Properties *)

\* an update call has been observed
Ran == last.who # "none"

Occurrences(s, x) == Cardinality({k \in DOMAIN s : s[k] = x})

MatchTracks(r) == [k \in DOMAIN r.matches |-> r.matches[k][1]]

MatchDets(r) == [k \in DOMAIN r.matches |-> r.matches[k][2]]

Ids(tracks) == {tracks[k].trackId : k \in DOMAIN tracks}

\* the tracks created in the observed cycle
NewTracks == SubSeq(last.post, Len(last.pre) + 1, Len(last.post))

\* number of detections of the observed call with score >= highThresh
NumHigh ==
  Cardinality({i \in DOMAIN last.detections :
                 RGeq(last.detections[i].score, last.highThresh)})

\* every given index is in exactly one of: a pair, the unmatched list
Partitioned(given, matched, unmatched) ==
  \A x \in Range(given) \cup Range(matched) \cup Range(unmatched) :
    /\ x \in Range(given)
    /\ Occurrences(matched, x) + Occurrences(unmatched, x) = 1

\* C1: in each association call of an update cycle no track index and no
\* detection index is in two returned pairs, and the pairs, unmatchedTracks
\* and unmatchedDets partition the track indices and detection indices given.
C1_NoDuplicateMatches ==
  Ran =>
    /\ Partitioned(last.trackIndices1, MatchTracks(last.stage1),
                   last.stage1.unmatchedTracks)
    /\ Partitioned(Keys(last.highDets), MatchDets(last.stage1),
                   last.stage1.unmatchedDets)
    /\ Partitioned(last.trackIndices2, MatchTracks(last.stage2),
                   last.stage2.unmatchedTracks)
    /\ Partitioned(Keys(last.lowDets), MatchDets(last.stage2),
                   last.stage2.unmatchedDets)

\* two detections with the same box compete for one track: one is paired,
\* the other reported unmatched
C1_Witness ==
  /\ Ran
  /\ Len(last.stage1.matches) = 1
  /\ Len(last.stage1.unmatchedDets) = 1
  /\ last.highDets[last.stage1.matches[1][2]].bbox
       = last.highDets[last.stage1.unmatchedDets[1]].bbox

\* C2: over both trackers the ids given by the constructor are strictly
\* increasing in order of creation (hence distinct, and the id of a removed
\* track is not given again), and the tracks held carry distinct ids.
C2_TrackIdsUnique ==
  /\ \A i, j \in DOMAIN created : i < j => created[i].trackId < created[j].trackId
  /\ \A i, j \in DOMAIN byte.tracks :
       i # j => byte.tracks[i].trackId # byte.tracks[j].trackId
  /\ \A i, j \in DOMAIN bot.tracks :
       i # j => bot.tracks[i].trackId # bot.tracks[j].trackId
  /\ Ids(byte.tracks) \cap Ids(bot.tracks) = {}
  /\ \A k \in DOMAIN created : created[k].trackId < count

\* a track of one tracker was removed before the observed cycle, in which the
\* other tracker created a track
C2_Witness ==
  /\ Ran
  /\ \E i, j \in DOMAIN created :
       /\ i < j
       /\ created[i].owner # created[j].owner
       /\ created[i].trackId \notin Ids(byte.tracks) \cup Ids(bot.tracks)
       /\ created[j].owner = last.who
       /\ created[j].trackId >= last.countBefore

\* C3: a track held at the start of a cycle has timeSinceUpdate 0 after the
\* cycle when it was matched in stage 1 or 2, and its earlier value plus 1
\* when it was not; the returned record carries that value.
C3_TimeSinceUpdate ==
  Ran =>
    \A i \in DOMAIN last.pre :
      /\ last.post[i].trackId = last.pre[i].trackId
      /\ last.post[i].timeSinceUpdate
           = IF i \in MatchedIn(last) THEN 0 ELSE last.pre[i].timeSinceUpdate + 1
      /\ \A k \in DOMAIN last.emitted :
           last.emitted[k].trackId = last.pre[i].trackId
             => last.emitted[k].timeSinceUpdate = last.post[i].timeSinceUpdate

\* a lost track is matched again while another lost track is missed again
C3_Witness ==
  /\ Ran
  /\ \E i, j \in DOMAIN last.pre :
       /\ i \in MatchedIn(last)
       /\ last.pre[i].timeSinceUpdate >= 1
       /\ j \notin MatchedIn(last)
       /\ last.pre[j].timeSinceUpdate >= 1

\* C4: every track a tracker holds, and every record it returned, has
\* timeSinceUpdate < trackBufferFrames; a track that reaches
\* timeSinceUpdate >= trackBufferFrames in a cycle is gone after the cycle.
C4_PruneBound ==
  /\ \A k \in DOMAIN byte.tracks :
       byte.tracks[k].timeSinceUpdate < byte.trackBufferFrames
  /\ \A k \in DOMAIN bot.tracks :
       bot.tracks[k].timeSinceUpdate < bot.trackBufferFrames
  /\ Ran =>
       /\ \A k \in DOMAIN last.emitted :
            last.emitted[k].timeSinceUpdate < last.trackBufferFrames
       /\ \A k \in DOMAIN last.post :
            last.post[k].timeSinceUpdate >= last.trackBufferFrames
              => last.post[k].trackId \notin Ids(last.tracks) \cup Ids(last.emitted)

\* a cycle removed a track and kept another
C4_Witness ==
  /\ Ran
  /\ Len(last.tracks) >= 1
  /\ \E k \in DOMAIN last.post :
       last.post[k].timeSinceUpdate >= last.trackBufferFrames

C6_Eviction ==
  [][\A k \in DOMAIN created :
       created[k].evicted
         => created[k].trackId
              \notin Ids(byte'.tracks) \cup Ids(bot'.tracks) \cup Ids(last'.emitted)]_vars

\* the cycle after the trackBufferFrames + 1 misses brought a detection to
\* the owner of the evicted track
C6_Witness ==
  /\ Ran
  /\ last.detections # <<>>
  /\ \E k \in DOMAIN created :
       /\ created[k].owner = last.who
       /\ created[k].evicted
       /\ created[k].misses = last.trackBufferFrames + 2

\* C7: the tracks created in a cycle correspond one to one to the detections
\* with score >= highThresh that stage 1 left unmatched; a cycle whose
\* detections all have score < highThresh creates no track.
C7_LowNeverCreates ==
  Ran =>
    /\ Len(NewTracks) = NumHigh - Len(last.stage1.matches)
    /\ last.count - last.countBefore = Len(NewTracks)
    /\ NumHigh = 0 => (Len(last.post) = Len(last.pre) /\ last.count = last.countBefore)
    /\ Len(last.stage1.unmatchedDets) = Len(NewTracks)
    /\ \A k \in DOMAIN NewTracks :
         /\ RGeq(last.highDets[last.stage1.unmatchedDets[k]].score, last.highThresh)
         /\ SubSeq(NewTracks[k].state, 1, 4)
              = Measure(last.highDets[last.stage1.unmatchedDets[k]].bbox)

\* a cycle of weak detections only, one matched in stage 2 and one left over,
\* creates nothing
C7_Witness ==
  /\ Ran
  /\ last.detections # <<>>
  /\ NumHigh = 0
  /\ Len(last.stage2.matches) >= 1
  /\ Len(last.stage2.unmatchedDets) >= 1
  /\ Len(last.post) = Len(last.pre)

\* C8: each detection with score >= highThresh either updates exactly one
\* track held before the cycle or creates exactly one track seeded with its
\* box, never both and never neither.
C8_HighDetOneEffect ==
  Ran =>
    /\ Len(last.highDets) = NumHigh
    /\ \A d \in DOMAIN last.highDets :
         Occurrences(MatchDets(last.stage1), d)
           + Cardinality({k \in DOMAIN NewTracks :
                            /\ k \in DOMAIN last.stage1.unmatchedDets
                            /\ last.stage1.unmatchedDets[k] = d}) = 1
    /\ Cardinality({i \in DOMAIN last.pre : last.t1[i] # last.predicted[i]})
         + Len(NewTracks) = NumHigh
    /\ \A k \in DOMAIN last.stage1.matches :
         LET m == last.stage1.matches[k]
         IN /\ m[1] \in DOMAIN last.pre
            /\ last.t1[m[1]].hits = last.predicted[m[1]].hits + 1
            /\ last.t1[m[1]].state
                 = BlendState(last.predicted[m[1]].state,
                              Measure(last.highDets[m[2]].bbox))
    /\ \A k \in DOMAIN NewTracks :
         /\ k \in DOMAIN last.stage1.unmatchedDets
         /\ NewTracks[k].age = 0
         /\ SubSeq(NewTracks[k].state, 1, 4)
              = Measure(last.highDets[last.stage1.unmatchedDets[k]].bbox)

\* of two confident detections one updates the track held and the other
\* creates a track
C8_Witness ==
  /\ Ran
  /\ Len(last.pre) >= 1
  /\ Len(last.stage1.matches) = 1
  /\ Len(last.stage1.unmatchedDets) = 1
  /\ Len(NewTracks) = 1

\* C9: stage 2 is given only the tracks stage 1 left unmatched, so a track is
\* updated at most once in a cycle and a detection is applied to at most one
\* track.
C9_OneUpdatePerCycle ==
  Ran =>
    /\ Range(last.trackIndices2) = Range(last.stage1.unmatchedTracks)
    /\ \A i \in DOMAIN last.pre :
         /\ Occurrences(MatchTracks(last.stage1), i)
              + Occurrences(MatchTracks(last.stage2), i) <= 1
         /\ last.t2[i].hits <= last.predicted[i].hits + 1
    /\ \A d \in DOMAIN last.highDets : Occurrences(MatchDets(last.stage1), d) <= 1
    /\ \A d \in DOMAIN last.lowDets : Occurrences(MatchDets(last.stage2), d) <= 1

\* a weak detection that overlaps a track updated in stage 1 by at least the
\* stage-2 threshold is left unmatched
C9_Witness ==
  /\ last.who = "byte"
  /\ \E k \in DOMAIN last.stage1.matches, d \in Range(last.stage2.unmatchedDets) :
       RGeq(Iou(GetBBox(last.t1[last.stage1.matches[k][1]]), last.lowDets[d].bbox),
            last.thresh2)

\* category of the detection that created the track with the given id
BornClass(id) ==
  created[CHOOSE k \in DOMAIN created : created[k].trackId = id].className

\* C10: in either stage a detection is matched only to a track whose category
\* (that of the detection the track was created from) equals its own.
C10_SameCategoryOnly ==
  Ran =>
    /\ \A k \in DOMAIN last.stage1.matches :
         BornClass(last.predicted[last.stage1.matches[k][1]].trackId)
           = last.highDets[last.stage1.matches[k][2]].className
    /\ \A k \in DOMAIN last.stage2.matches :
         BornClass(last.predicted[last.stage2.matches[k][1]].trackId)
           = last.lowDets[last.stage2.matches[k][2]].className

\* C11: every record returned carries the category of the detection that
\* created its track.
C11_CategoryFromCreator ==
  Ran =>
    \A k \in DOMAIN last.emitted :
      last.emitted[k].className = BornClass(last.emitted[k].trackId)

\* the observed cycle continues (or starts) a trajectory of one object: the
\* tracker held at most one track, the cycle brought exactly one detection
\* with score >= highThresh, and its IoU with the predicted box of the track
\* held is >= matchThresh
OneObjectCycle ==
  /\ Ran
  /\ NumHigh = 1
  /\ Len(last.pre) <= 1
  /\ Len(last.pre) = 1 =>
       RGeq(Iou(GetBBox(last.predicted[1]), last.highDets[1].bbox), last.thresh1)

\* C12: a ByteTracker cycle that continues a one-object trajectory returns
\* exactly one track; it is the track held before the cycle (the one the first
\* cycle created), matched, and no other track is created.
C12_IdentityStable ==
  (OneObjectCycle /\ last.who = "byte") =>
    /\ Len(last.tracks) = 1
    /\ Len(last.emitted) = 1
    /\ last.emitted[1].trackId
         = IF last.pre = <<>> THEN last.countBefore ELSE last.pre[1].trackId
    /\ last.emitted[1].timeSinceUpdate = 0
    /\ Len(last.pre) = 1 => last.count = last.countBefore

\* third cycle of a trajectory: the track was matched in the cycle before,
\* and is matched again by a detection at another place
C12_Witness ==
  /\ OneObjectCycle
  /\ last.who = "byte"
  /\ byte.frameId = 3
  /\ Len(last.pre) = 1
  /\ last.pre[1].hits = 1
  /\ last.pre[1].timeSinceUpdate = 0
  /\ last.highDets[1].bbox # GetBBox(last.predicted[1])
  /\ last.emitted[1].hits = 2
  /\ Len(created) = 1

\* the score the observed cycle's association gives the pair of the single
\* track held and the detection det with descriptor app
PairScore(det, app) ==
  IF last.who = "bot"
  THEN FinalScore(last.predicted[1], det, app, bot.appearanceWeight)
  ELSE Iou(GetBBox(last.predicted[1]), det.bbox)

\* the observed cycle brought exactly one detection, a weak one, to a tracker
\* holding one track that was matched in the cycle before
OnlyLowDet ==
  /\ Ran
  /\ Len(last.pre) = 1
  /\ last.pre[1].timeSinceUpdate = 0
  /\ Len(last.detections) = 1
  /\ Len(last.lowDets) = 1

\* ... exactly one detection, a confident one
OnlyHighDet ==
  /\ Ran
  /\ Len(last.pre) = 1
  /\ last.pre[1].timeSinceUpdate = 0
  /\ Len(last.detections) = 1
  /\ Len(last.highDets) = 1

\* the track held is returned with its id and timeSinceUpdate 0, and no track
\* was created
SameTrackKept ==
  /\ Len(last.emitted) = 1
  /\ last.emitted[1].trackId = last.pre[1].trackId
  /\ last.emitted[1].timeSinceUpdate = 0
  /\ Len(last.tracks) = 1
  /\ last.count = last.countBefore

\* C13 as stated: a cycle with only a weak detection whose IoU with the track
\* is >= the stage-2 threshold, or only a confident one whose IoU is >=
\* matchThresh, keeps the trackId, leaves timeSinceUpdate 0 and creates no
\* track (in ByteTracker and in BoTSORT).
C13_RecoveredByIoU ==
  /\ (OnlyLowDet /\ RGeq(Iou(GetBBox(last.predicted[1]), last.lowDets[1].bbox),
                         last.thresh2))
       => SameTrackKept
  /\ (OnlyHighDet /\ RGeq(Iou(GetBBox(last.predicted[1]), last.highDets[1].bbox),
                          last.thresh1))
       => SameTrackKept

\* C13 amended: the same, when the score of the association (IoU, blended
\* with the cosine similarity in BoTSORT when track and detection both have a
\* descriptor) is >= the threshold of the stage.
C13_RecoveredByScore ==
  /\ (OnlyLowDet /\ RGeq(PairScore(last.lowDets[1], At(last.lowApps, 1)),
                         last.thresh2))
       => (SameTrackKept /\ Len(last.stage2.matches) = 1)
  /\ (OnlyHighDet /\ RGeq(PairScore(last.highDets[1], At(last.highApps, 1)),
                          last.thresh1))
       => (SameTrackKept /\ Len(last.stage1.matches) = 1)

\* fifth cycle of a BoTSORT: the track was created, matched by the weak
\* detection at x = 3 in three cycles, and is now matched by a confident one
C13_Witness ==
  /\ OnlyHighDet
  /\ last.who = "bot"
  /\ bot.frameId = 5
  /\ last.videoFrame.present
  /\ last.pre[1].hits = 3
  /\ last.pre[1].state[1] = Frac(1109, 250)
  /\ SameTrackKept
  /\ Len(created) = 1

\* 0.4 * old + 0.6 * new
SixTenths(old, new) == RAdd(RMul(Frac(4, 10), old), RMul(Frac(6, 10), new))

\* the track `after' is the track `before' updated with bbox [x, y, w, h]
BlendedToward(before, after, bbox) ==
  /\ after.state[1] = SixTenths(before.state[1], RAdd(bbox[1], RDiv(bbox[3], R(2))))
  /\ after.state[2] = SixTenths(before.state[2], RAdd(bbox[2], RDiv(bbox[4], R(2))))
  /\ after.state[3] = SixTenths(before.state[3], RMul(bbox[3], bbox[4]))
  /\ after.state[4] = SixTenths(before.state[4], bbox[4])
  /\ after.timeSinceUpdate = 0
  /\ after.trackId = before.trackId

\* the observed cycle is the worked example: one track, created from
\* [100, 100, 50, 80], and the single detection [105, 102, 52, 78]
WorkedExample ==
  /\ Ran
  /\ Len(last.pre) = 1
  /\ last.pre[1].state = Measure(ScenarioTrackBox) \o <<R(0), R(0), R(0), R(0)>>
  /\ Len(last.detections) = 1
  /\ last.detections[1].bbox = ScenarioDetBox

\* C14: every track matched in a cycle has cx, cy, area and height set to
\* 0.4 * (value before) + 0.6 * (value measured from the box), timeSinceUpdate
\* 0 and its trackId kept; in the worked example there is one matched pair and
\* cx moves 60% of the way from 125 to 131.
C14_UpdateBlend ==
  /\ Ran =>
       /\ \A k \in DOMAIN last.stage1.matches :
            BlendedToward(last.predicted[last.stage1.matches[k][1]],
                          last.t1[last.stage1.matches[k][1]],
                          last.highDets[last.stage1.matches[k][2]].bbox)
       /\ \A k \in DOMAIN last.stage2.matches :
            BlendedToward(last.t1[last.stage2.matches[k][1]],
                          last.t2[last.stage2.matches[k][1]],
                          last.lowDets[last.stage2.matches[k][2]].bbox)
  /\ WorkedExample =>
       /\ last.stage1.matches = <<(<<1, 1>>)>>
       /\ last.stage2.matches = <<>>
       /\ Len(last.tracks) = 1
       /\ RSub(last.tracks[1].state[1], R(125))
            = RMul(Frac(6, 10), RSub(R(131), R(125)))
       /\ SubSeq(last.tracks[1].state, 1, 4)
            = <<Frac(1286, 10), Frac(1406, 10), Frac(40336, 10), Frac(788, 10)>>
       /\ last.tracks[1].timeSinceUpdate = 0
       /\ last.tracks[1].trackId = last.pre[1].trackId
       /\ last.emitted[1].trackId = last.pre[1].trackId

\* the worked example ran
C14_Witness ==
  /\ WorkedExample
  /\ last.who = "byte"
  /\ Len(last.stage1.matches) = 1
  /\ last.tracks[1].state[1] = Frac(643, 5)

\* what update() leaves alone in a track
SameButMeasured(before, after) ==
  /\ SubSeq(after.state, 5, 8) = SubSeq(before.state, 5, 8)
  /\ after.trackId = before.trackId
  /\ after.age = before.age
  /\ after.hits = before.hits + 1
  /\ DOMAIN after = DOMAIN before

\* C15: a track updated in stage 1 or stage 2 keeps its four velocity
\* components, its trackId and its age; a track not matched in a stage is not
\* changed by the stage at all.
C15_UpdateFrame ==
  Ran =>
    \A i \in DOMAIN last.predicted :
      /\ IF i \in Range(MatchTracks(last.stage1))
         THEN SameButMeasured(last.predicted[i], last.t1[i])
         ELSE last.t1[i] = last.predicted[i]
      /\ IF i \in Range(MatchTracks(last.stage2))
         THEN SameButMeasured(last.t1[i], last.t2[i])
         ELSE last.t2[i] = last.t1[i]

\* a BoTSORT cycle matched a track to a detection at another place, with
\* another descriptor, while a second track was not matched
C15_Witness ==
  /\ Ran
  /\ \E i, j \in DOMAIN last.predicted :
       /\ i \in Range(MatchTracks(last.stage1))
       /\ last.t1[i].state[1] # last.predicted[i].state[1]
       /\ last.t1[i].appearance # last.predicted[i].appearance
       /\ last.predicted[i].appearance # Undefined
       /\ j \notin Range(MatchTracks(last.stage1)) \cup Range(MatchTracks(last.stage2))

\* the score the association of the observed cycle gives each pair of a track
\* of `tracks' and a detection of `dets' (descriptors `apps')
StageScore(tracks, dets, apps) ==
  [t \in DOMAIN tracks, d \in DOMAIN dets |->
     IF last.who = "bot"
     THEN FinalScore(tracks[t], dets[d], At(apps, d), bot.appearanceWeight)
     ELSE Iou(GetBBox(tracks[t]), dets[d].bbox)]

\* the pairs of the given indices with score >= thresh
RefPairs(tIdxs, dIdxs, score, thresh) ==
  {p \in Range(tIdxs) \X Range(dIdxs) : RGeq(score[p[1], p[2]], thresh)}

\* p comes before q in descending order of score (equal scores: in order of
\* track index, then detection index)
RefBefore(p, q, score) ==
  \/ RGt(score[p[1], p[2]], score[q[1], q[2]])
  \/ /\ score[p[1], p[2]] = score[q[1], q[2]]
     /\ (p[1] < q[1] \/ (p[1] = q[1] /\ p[2] <= q[2]))

RefBest(pairs, score) == CHOOSE p \in pairs : \A q \in pairs : RefBefore(p, q, score)

\* reference procedure: accept the best remaining pair, drop every pair that
\* shares its track or its detection, repeat
RECURSIVE RefGreedy(_, _)
RefGreedy(pairs, score) ==
  IF pairs = {} THEN <<>>
  ELSE <<RefBest(pairs, score)>>
         \o RefGreedy({q \in pairs : /\ q[1] # RefBest(pairs, score)[1]
                                     /\ q[2] # RefBest(pairs, score)[2]}, score)

\* the result r of an association call agrees with the reference
AgreesWithReference(r, tIdxs, dIdxs, score, thresh) ==
  /\ r.matches = RefGreedy(RefPairs(tIdxs, dIdxs, score, thresh), score)
  /\ \A k \in DOMAIN r.matches :
       RGeq(score[r.matches[k][1], r.matches[k][2]], thresh)
  /\ Range(r.unmatchedTracks) = Range(tIdxs) \ Range(MatchTracks(r))
  /\ Range(r.unmatchedDets) = Range(dIdxs) \ Range(MatchDets(r))

\* C16: the pairs returned by each association call of a cycle are those of
\* the reference greedy procedure over the pairs with score >= the threshold
\* of the stage, in descending order of score; every returned pair has score
\* >= the threshold.
C16_GreedyReference ==
  Ran =>
    /\ AgreesWithReference(last.stage1, last.trackIndices1, Keys(last.highDets),
                           StageScore(last.predicted, last.highDets, last.highApps),
                           last.thresh1)
    /\ AgreesWithReference(last.stage2, last.trackIndices2, Keys(last.lowDets),
                           StageScore(last.t1, last.lowDets, last.lowApps),
                           last.thresh2)

\* a pair enumerated before the accepted one had a score >= the threshold
\* and lost to a pair with a higher score
C16_Witness ==
  /\ Ran
  /\ \E k \in DOMAIN last.stage1.matches, t \in DOMAIN last.predicted,
        d \in DOMAIN last.highDets :
       /\ t = last.stage1.matches[k][1]
       /\ d < last.stage1.matches[k][2]
       /\ RGeq(StageScore(last.predicted, last.highDets, last.highApps)[t, d],
               last.thresh1)

\* position of x in the sequence s of distinct values
PosIn(s, x) == CHOOSE i \in DOMAIN s : s[i] = x

\* pair p is enumerated before pair q by the loops over tIdxs (outer) and
\* the detection indices (inner, ascending)
EnumeratedBefore(p, q, tIdxs) ==
  \/ PosIn(tIdxs, p[1]) < PosIn(tIdxs, q[1])
  \/ (p[1] = q[1] /\ p[2] < q[2])

\* in the result r no accepted pair overtook a candidate of equal score that
\* was enumerated before it: such a candidate was accepted earlier, or had
\* lost its track or its detection to a pair accepted earlier
TiesInEnumerationOrder(r, tIdxs, dIdxs, score, thresh) ==
  \A k \in DOMAIN r.matches, q \in RefPairs(tIdxs, dIdxs, score, thresh) :
    (/\ score[q[1], q[2]] = score[r.matches[k][1], r.matches[k][2]]
     /\ EnumeratedBefore(q, r.matches[k], tIdxs))
      => \E j \in 1..(k - 1) : r.matches[j][1] = q[1] \/ r.matches[j][2] = q[2]

\* the pairs of r are in descending order of score
DescendingScores(r, score) ==
  \A j, k \in DOMAIN r.matches :
    j < k => RGeq(score[r.matches[j][1], r.matches[j][2]],
                  score[r.matches[k][1], r.matches[k][2]])

\* C17: in each association call of a cycle the pairs are accepted in
\* descending order of score, and among candidates of equal score in the order
\* of enumeration (track index outer, detection index inner); the result is
\* determined by the tracks, the detections and their order.
C17_TiesByEnumeration ==
  Ran =>
    /\ TiesInEnumerationOrder(last.stage1, last.trackIndices1, Keys(last.highDets),
                              StageScore(last.predicted, last.highDets, last.highApps),
                              last.thresh1)
    /\ DescendingScores(last.stage1,
                        StageScore(last.predicted, last.highDets, last.highApps))
    /\ TiesInEnumerationOrder(last.stage2, last.trackIndices2, Keys(last.lowDets),
                              StageScore(last.t1, last.lowDets, last.lowApps),
                              last.thresh2)
    /\ DescendingScores(last.stage2, StageScore(last.t1, last.lowDets, last.lowApps))

\* two tracks at the same place competed for one detection with equal scores
\* and the track with the lower index was paired
C17_Witness ==
  /\ Ran
  /\ Len(last.predicted) >= 2
  /\ Len(last.highDets) = 1
  /\ last.stage1.matches = <<(<<1, 1>>)>>
  /\ 2 \in Range(last.stage1.unmatchedTracks)
  /\ StageScore(last.predicted, last.highDets, last.highApps)[1, 1]
       = StageScore(last.predicted, last.highDets, last.highApps)[2, 1]

\* C18: a cycle with an empty detection list matches nothing and creates
\* nothing; every track held keeps its trackId and has age and
\* timeSinceUpdate increased by exactly 1; the tracks whose timeSinceUpdate
\* thereby equals trackBufferFrames are removed and all others are kept, in
\* order, and returned.
C18_EmptyCycle ==
  (Ran /\ last.detections = <<>>) =>
    /\ last.stage1.matches = <<>>
    /\ last.stage2.matches = <<>>
    /\ last.count = last.countBefore
    /\ Len(last.post) = Len(last.pre)
    /\ \A i \in DOMAIN last.pre :
         /\ last.post[i].trackId = last.pre[i].trackId
         /\ last.post[i].age = last.pre[i].age + 1
         /\ last.post[i].timeSinceUpdate = last.pre[i].timeSinceUpdate + 1
         /\ last.post[i].timeSinceUpdate <= last.trackBufferFrames
         /\ (last.post[i].timeSinceUpdate = last.trackBufferFrames)
              <=> (last.post[i].trackId \notin Ids(last.tracks))
    /\ last.tracks
         = SelectSeq(last.post,
                     LAMBDA t : t.timeSinceUpdate # last.trackBufferFrames)
    /\ Len(last.emitted) = Len(last.tracks)
    /\ \A k \in DOMAIN last.tracks :
         /\ last.emitted[k].trackId = last.tracks[k].trackId
         /\ last.emitted[k].age = last.tracks[k].age
         /\ last.emitted[k].timeSinceUpdate = last.tracks[k].timeSinceUpdate

\* an empty cycle removed one lost track and kept another track
C18_Witness ==
  /\ Ran
  /\ last.detections = <<>>
  /\ Len(last.pre) = 2
  /\ Len(last.tracks) = 1
  /\ last.tracks[1].timeSinceUpdate = 1
  /\ last.tracks[1].age >= 2

\* C19: while a processFrame invocation is inside tracker.update it occupies
\* the thread, no other invocation is inside update, and every step up to the
\* end of the update is a step of that invocation: no other invocation moves,
\* and the tracker's collection changes only at the end of the update.
C19_NoOverlappingCycles ==
  /\ [](\A i \in 1..MaxInvocations :
          host.pc[i] \in InUpdate
            => /\ host.running = i
               /\ \A j \in 1..MaxInvocations : host.pc[j] \in InUpdate => j = i)
  /\ [][\A i \in 1..MaxInvocations :
          host.pc[i] \in InUpdate
            => /\ \A j \in 1..MaxInvocations : j # i => host'.pc[j] = host.pc[j]
               /\ host.pc[i] # "emit" => (byte' = byte /\ count' = count)]_vars

\* an invocation is inside update while a later invocation, started during
\* the awaits of the first, is suspended at the detector
C19_Witness ==
  /\ host.pc[1] = "stage2"
  /\ host.pc[2] = "detect"
  /\ byte.frameId >= 1
  /\ host.cycle.predicted # <<>>

\* C20: no record returned by update has the track's state vector among its
\* fields; the fields are those of a detection, trackId, the counters and (in
\* BoTSORT) the descriptor.
C20_StateNotExposed ==
  Ran =>
    \A k \in DOMAIN last.emitted :
      DOMAIN last.emitted[k]
        \subseteq {"trackId", "bbox", "score", "classId", "className", "age",
                   "hits", "timeSinceUpdate", "appearance"}

\* width or height of the box is negative or not finite
BadDimensions(bbox) ==
  \/ ~IsFinite(bbox[3]) \/ ~IsFinite(bbox[4])
  \/ RLt(bbox[3], R(0)) \/ RLt(bbox[4], R(0))

\* C21: a detection whose box has a negative or non-finite width or height is
\* in no pair of either stage and no track is created from it.
C21_BadBoxesRejected ==
  Ran =>
    /\ \A d \in DOMAIN last.highDets :
         BadDimensions(last.highDets[d].bbox)
           => /\ d \notin Range(MatchDets(last.stage1))
              /\ (d \in Range(last.stage1.unmatchedDets)
                    => Len(last.post) = Len(last.predicted))
    /\ \A d \in DOMAIN last.lowDets :
         BadDimensions(last.lowDets[d].bbox) => d \notin Range(MatchDets(last.stage2))

\* C22: every component of every held track's state and of every returned
\* box is a finite number.
C22_FiniteBoxes ==
  /\ \A k \in DOMAIN byte.tracks, i \in 1..8 : IsFinite(byte.tracks[k].state[i])
  /\ \A k \in DOMAIN bot.tracks, i \in 1..8 : IsFinite(bot.tracks[k].state[i])
  /\ \A k \in DOMAIN last.emitted, i \in 1..4 : IsFinite(last.emitted[k].bbox[i])

\* the descriptor of a region with no pixel: every component is 0
AllZero(app) == app # Undefined /\ \A i \in DOMAIN app : app[i] = R(0)

\* C23: in BoTSORT the score of every pair whose detection has the all-zero
\* descriptor is the plain IoU of the pair, in both stages.
C23_ZeroDescriptorSkipped ==
  last.who = "bot" =>
    /\ \A t \in Range(last.trackIndices1), d \in DOMAIN last.highDets :
         AllZero(At(last.highApps, d))
           => StageScore(last.predicted, last.highDets, last.highApps)[t, d]
                = Iou(GetBBox(last.predicted[t]), last.highDets[d].bbox)
    /\ \A t \in Range(last.trackIndices2), d \in DOMAIN last.lowDets :
         AllZero(At(last.lowApps, d))
           => StageScore(last.t1, last.lowDets, last.lowApps)[t, d]
                = Iou(GetBBox(last.t1[t]), last.lowDets[d].bbox)

\* C24: the threshold of the second association of a cycle is at most the
\* threshold of its first association.
C24_Stage2NotStricter == Ran => RGeq(last.thresh1, last.thresh2)

\* C25: in a BoTSORT cycle given a frame, the descriptor used for each
\* confident and each weak detection is the one extracted from that
\* detection's own box, and a track created in the cycle carries the
\* descriptor of the detection it was created from.
C25_OwnDescriptor ==
  (last.who = "bot" /\ last.videoFrame.present) =>
    /\ \A d \in DOMAIN last.highDets :
         At(last.highApps, d) = ExtractAppearance(last.videoFrame, last.highDets[d].bbox)
    /\ \A d \in DOMAIN last.lowDets :
         At(last.lowApps, d) = ExtractAppearance(last.videoFrame, last.lowDets[d].bbox)
    /\ \A k \in DOMAIN last.stage1.unmatchedDets :
         last.post[Len(last.predicted) + k].appearance
           = ExtractAppearance(last.videoFrame,
                               last.highDets[last.stage1.unmatchedDets[k]].bbox)

\* the age a track at position i after the spawn step must report: one more
\* than at the start of the cycle, 0 for a track created in the cycle
AgeDue(i) == IF i <= Len(last.pre) THEN last.pre[i].age + 1 ELSE 0

\* C26: every returned track created in the cycle reports age 0, and every
\* other returned track reports one more than it had at the start of the
\* cycle, matched or not.
C26_AgeCountsCycles ==
  Ran =>
    /\ Len(last.post) >= Len(last.pre)
    /\ \A k \in DOMAIN last.emitted :
         \E i \in DOMAIN last.post :
           /\ last.post[i].trackId = last.emitted[k].trackId
           /\ last.emitted[k].age = AgeDue(i)

\* a track is returned with age 4 in the fourth cycle after the one that
\* created it, a cycle in which it was not matched
C26_Witness ==
  /\ Ran
  /\ \E k \in DOMAIN last.emitted, i \in DOMAIN last.pre :
       /\ last.emitted[k].trackId = last.pre[i].trackId
       /\ last.pre[i].age = 3
       /\ last.emitted[k].age = 4
       /\ last.emitted[k].timeSinceUpdate = 1

\* C27: no two tracks held by the inline tracker at the same time have the
\* same id.
C27_UniqueInlineIds ==
  \A i, j \in DOMAIN inline.tracks :
    i # j => inline.tracks[i].id # inline.tracks[j].id

\* the track at position i keeps its place and id from the start of the
\* observed cycle up to the prune filter
KeptInPlace(i) ==
  /\ i \in DOMAIN last.predicted /\ i \in DOMAIN last.t1
  /\ i \in DOMAIN last.t2 /\ i \in DOMAIN last.post
  /\ last.predicted[i].trackId = last.pre[i].trackId
  /\ last.t1[i].trackId = last.pre[i].trackId
  /\ last.t2[i].trackId = last.pre[i].trackId
  /\ last.post[i].trackId = last.pre[i].trackId

\* C28: in every cycle each track held at its start is at the same position
\* with the same id after both associations, their updates and the spawn step;
\* a track absent at the end was removed by the filter (its timeSinceUpdate is
\* not below trackBufferFrames); and a track matched in the cycle is held and
\* returned at the end with its id and timeSinceUpdate 0.
C28_OnlyPruneRemoves ==
  Ran =>
    /\ \A i \in DOMAIN last.pre : KeptInPlace(i)
    /\ \A i \in DOMAIN last.post :
         last.post[i].trackId \notin Ids(last.tracks)
           => last.post[i].timeSinceUpdate >= last.trackBufferFrames
    /\ \A i \in MatchedIn(last) :
         /\ \E k \in DOMAIN last.tracks :
              /\ last.tracks[k].trackId = last.pre[i].trackId
              /\ last.tracks[k].timeSinceUpdate = 0
         /\ \E k \in DOMAIN last.emitted :
              /\ last.emitted[k].trackId = last.pre[i].trackId
              /\ last.emitted[k].timeSinceUpdate = 0

\* a track that missed the cycle before is matched again and returned
C28_Witness ==
  /\ Ran
  /\ \E i \in MatchedIn(last), k \in DOMAIN last.emitted :
       /\ last.pre[i].timeSinceUpdate = 1
       /\ last.emitted[k].trackId = last.pre[i].trackId
       /\ last.emitted[k].timeSinceUpdate = 0

\* the descriptor `new' a track has after a match, given the descriptor `old'
\* it had and the descriptor `app' of the detection
DescriptorAfter(old, app, new) ==
  IF old # Undefined /\ app # Undefined
  THEN /\ DOMAIN new = DOMAIN old
       /\ \A i \in DOMAIN old :
            new[i] = RAdd(RMul(Frac(9, 10), old[i]), RMul(Frac(1, 10), app[i]))
  ELSE IF app = Undefined THEN new = old
  ELSE new = app

\* C29: after every match of a BoTSORT cycle the track's descriptor is
\* 0.9 * old + 0.1 * new element by element when both exist, the old one when
\* the detection has none, and the detection's when the track had none.
C29_DescriptorBlend ==
  last.who = "bot" =>
    /\ \A k \in DOMAIN last.stage1.matches :
         DescriptorAfter(last.predicted[last.stage1.matches[k][1]].appearance,
                         At(last.highApps, last.stage1.matches[k][2]),
                         last.t1[last.stage1.matches[k][1]].appearance)
    /\ \A k \in DOMAIN last.stage2.matches :
         DescriptorAfter(last.t1[last.stage2.matches[k][1]].appearance,
                         At(last.lowApps, last.stage2.matches[k][2]),
                         last.t2[last.stage2.matches[k][1]].appearance)

\* a track with a descriptor is matched to a detection with a different
\* descriptor and ends with one that is neither of the two
C29_Witness ==
  /\ last.who = "bot"
  /\ \E k \in DOMAIN last.stage1.matches :
       /\ last.predicted[last.stage1.matches[k][1]].appearance # Undefined
       /\ At(last.highApps, last.stage1.matches[k][2]) # Undefined
       /\ last.t1[last.stage1.matches[k][1]].appearance
            # last.predicted[last.stage1.matches[k][1]].appearance
       /\ last.t1[last.stage1.matches[k][1]].appearance
            # At(last.highApps, last.stage1.matches[k][2])

\* the number of consecutive cycles, ending with the observed one, in which
\* the track with the given id was matched
RunOf(id) ==
  LET k == CHOOSE k \in DOMAIN created : created[k].trackId = id
  IN  created[k].run

\* C30: at the end of every cycle a held track that was matched in the cycle
\* has hits equal to the number of consecutive cycles, ending with this one,
\* in which it was matched, and a held track with timeSinceUpdate >= 2 has
\* hits 0.
C30_HitsCountRun ==
  Ran =>
    \A k \in DOMAIN last.tracks :
      /\ last.tracks[k].trackId \in {last.pre[i].trackId : i \in MatchedIn(last)}
           => last.tracks[k].hits = RunOf(last.tracks[k].trackId)
      /\ last.tracks[k].timeSinceUpdate >= 2 => last.tracks[k].hits = 0

\* a track matched in two consecutive cycles and then missed is matched
\* again: it is returned with hits 1
C30_Witness ==
  /\ Ran
  /\ \E i \in MatchedIn(last), k \in DOMAIN last.emitted :
       /\ last.pre[i].hits = 2
       /\ last.pre[i].timeSinceUpdate = 1
       /\ last.emitted[k].trackId = last.pre[i].trackId
       /\ last.emitted[k].hits = 1

\* the velocity components state[4..7] of a track are all 0
AtRest(t) == \A i \in 5..8 : t.state[i] = R(0)

\* C31: every held track has velocity components 0 at every point of a
\* cycle, and predict() leaves the state vector of every track as it was.
C31_VelocityZero ==
  /\ \A k \in DOMAIN byte.tracks : AtRest(byte.tracks[k])
  /\ \A k \in DOMAIN bot.tracks : AtRest(bot.tracks[k])
  /\ Ran =>
       /\ \A i \in DOMAIN last.predicted :
            /\ AtRest(last.predicted[i])
            /\ last.predicted[i].state = last.pre[i].state
       /\ \A i \in DOMAIN last.t1 : AtRest(last.t1[i])
       /\ \A i \in DOMAIN last.t2 : AtRest(last.t2[i])
       /\ \A i \in DOMAIN last.post : AtRest(last.post[i])

\* a track whose box an update has moved away from where it was created is
\* predicted in a cycle that does not match it, and returned where it was
C31_Witness ==
  /\ Ran
  /\ \E i \in DOMAIN last.pre, k \in DOMAIN last.emitted :
       /\ i \notin MatchedIn(last)
       /\ last.pre[i].hits >= 1
       /\ last.pre[i].state[1] # Frac(7, 2)
       /\ last.emitted[k].trackId = last.pre[i].trackId
       /\ last.emitted[k].state = last.pre[i].state

\* no track and detection both reported unmatched in r have a score that
\* reaches thresh
Maximal(r, score, thresh) ==
  \A t \in Range(r.unmatchedTracks), d \in Range(r.unmatchedDets) :
    ~RGeq(score[t, d], thresh)

\* C32: after each of the two associations of a cycle, no track left unmatched
\* and detection left unmatched have a score >= the threshold of the call.
C32_GreedyMaximal ==
  Ran =>
    /\ Maximal(last.stage1, StageScore(last.predicted, last.highDets, last.highApps),
               last.thresh1)
    /\ Maximal(last.stage2, StageScore(last.t1, last.lowDets, last.lowApps),
               last.thresh2)

\* the second association makes a pair and leaves a track and a detection
\* unmatched that overlap, with a score below the threshold
C32_Witness ==
  /\ Ran
  /\ last.stage2.matches # <<>>
  /\ \E t \in Range(last.stage2.unmatchedTracks), d \in Range(last.stage2.unmatchedDets) :
       RGt(StageScore(last.t1, last.lowDets, last.lowApps)[t, d], R(0))

\* C33: a track created in a cycle is at none of the positions predicted,
\* handed to the first or second association or paired in that cycle, and is
\* returned by the cycle with age 0, hits 0 and timeSinceUpdate 0; every
\* track held at the start of a cycle is handed to its first association.
C33_SpawnedAfterMatching ==
  Ran =>
    /\ Len(last.predicted) = Len(last.pre)
    /\ \A i \in DOMAIN last.pre : i \in Range(last.trackIndices1)
    /\ \A i \in (Len(last.pre) + 1)..Len(last.post) :
         /\ i \notin Range(last.trackIndices1) \cup Range(last.trackIndices2)
         /\ i \notin Range(MatchTracks(last.stage1)) \cup Range(MatchTracks(last.stage2))
         /\ \E k \in DOMAIN last.emitted :
              /\ last.emitted[k].trackId = last.post[i].trackId
              /\ last.emitted[k].age = 0
              /\ last.emitted[k].hits = 0
              /\ last.emitted[k].timeSinceUpdate = 0

\* a track created in the cycle before (after another one) is paired in this
\* cycle, which creates a further track from another detection
C33_Witness ==
  /\ Ran
  /\ \E i \in MatchedIn(last) : last.pre[i].age = 0 /\ last.pre[i].trackId > 0
  /\ Len(last.post) > Len(last.pre)

\* timeSinceUpdate and hits of every track of the sequence are at most its age
WithinAge(tracks) ==
  \A i \in DOMAIN tracks :
    tracks[i].timeSinceUpdate <= tracks[i].age /\ tracks[i].hits <= tracks[i].age

\* C34: at the start of a cycle, after predict, after the updates of each
\* association, after the spawn step and after the filter, every track has
\* timeSinceUpdate <= age and hits <= age.
C34_CountersWithinAge ==
  /\ WithinAge(byte.tracks) /\ WithinAge(bot.tracks)
  /\ Ran =>
       /\ WithinAge(last.pre) /\ WithinAge(last.predicted)
       /\ WithinAge(last.t1) /\ WithinAge(last.t2)
       /\ WithinAge(last.post) /\ WithinAge(last.tracks)

\* the bound on hits is met: a track matched in each of the three cycles
\* after the one that created it has hits = age = 3
C34_Witness ==
  /\ Ran
  /\ \E k \in DOMAIN last.tracks :
       last.tracks[k].hits = 3 /\ last.tracks[k].age = 3

\* C35: the state vector read through any record returned by an earlier or
\* the current cycle of the ByteTracker is the one the record had when it was
\* returned.
C35_StableSnapshot ==
  \A k \in DOMAIN snap.emitted :
    snap.arrays[snap.emitted[k].ref] = snap.emitted[k].record.state

\* a track returned by an earlier cycle has been updated since: its state
\* now differs from the state of the record returned then
C35_Witness ==
  \E k \in DOMAIN snap.emitted, i \in DOMAIN byte.tracks :
    /\ byte.tracks[i].trackId = snap.emitted[k].record.trackId
    /\ byte.tracks[i].state # snap.emitted[k].record.state

\* C36: no invocation of processFrame is inside tracker.update while an
\* invocation started before it still has its own call of update ahead of it.
C36_UpdatesInFrameOrder ==
  \A i, j \in 1..MaxInvocations :
    (j < i /\ host.pc[i] \in InUpdate)
      => host.pc[j] \notin SuspensionPoints \cup {"predict"}

\* C37: in the minHits / maxAge tracker every returned track is held, is
\* 'tracked' and has consecutiveFrames >= minHits, and every held track of
\* that kind is returned; a held track has been matched in every cycle since
\* the one that created it (consecutiveFrames = age + 1), so a returned track
\* has at least minHits - 1 cycles of matches behind it; and a track created
\* by a call has consecutiveFrames 1 and is not in what that call returns.
C37_EmittedAfterMinHits ==
  /\ [](/\ \A t \in Range(hitsTracker.returned) :
             /\ t \in Range(hitsTracker.tracks)
             /\ t.state = "tracked"
             /\ t.consecutiveFrames >= hitsTracker.minHits
             /\ t.age >= hitsTracker.minHits - 1
        /\ \A t \in Range(hitsTracker.tracks) :
             /\ t.consecutiveFrames = t.age + 1
             /\ (t.state = "tracked" /\ t.consecutiveFrames >= hitsTracker.minHits)
                  => t \in Range(hitsTracker.returned))
  /\ [][\A t \in Range(hitsTracker'.tracks) :
          t.id >= hitsTracker.nextId
            => /\ t.consecutiveFrames = 1
               /\ t \notin Range(hitsTracker'.returned)]_vars

\* a track is returned for the first time, in the second cycle after the one
\* that created it, while a younger track is held back
C37_Witness ==
  /\ \E t \in Range(hitsTracker.returned) :
       t.age = hitsTracker.minHits - 1 /\ t.consecutiveFrames = hitsTracker.minHits
  /\ \E t \in Range(hitsTracker.tracks) : t \notin Range(hitsTracker.returned)

\* C38: in the minHits / maxAge tracker every held track is 'tracked' and
\* younger than maxAge; a track that stays held through a call of update was
\* matched in it and is one cycle older after it; a track that associate()
\* left unmatched is not held after the call; and a track whose age reaches
\* maxAge in the call is not held after it, matched or not.
C38_RemovedByAgeOrMiss ==
  /\ [](\A t \in Range(hitsTracker.tracks) :
          t.state = "tracked" /\ t.age < hitsTracker.maxAge)
  /\ [][\A i \in DOMAIN hitsTracker.tracks :
          LET u == hitsTracker.tracks[i]
              wasMatched == \E m \in Range(hitsTracker'.matched) : m[1] = i
              after == {t \in Range(hitsTracker'.tracks) : t.id = u.id}
          IN /\ \A t \in after : wasMatched /\ t.age = u.age + 1
             /\ ~wasMatched => after = {}
             /\ u.age + 1 >= hitsTracker.maxAge => after = {}]_vars

\* a track matched in every cycle, the last one included, is removed in the
\* cycle in which its age reaches maxAge
C38_Witness ==
  \E t \in Range(hitsTracker.removed) :
    /\ t.state = "tracked"
    /\ t.age = hitsTracker.maxAge
    /\ t.consecutiveFrames = hitsTracker.maxAge + 1

\* C39: nms returns a list (the loop ends) that is made of predictions, is in
\* descending order of score, begins with a prediction of the highest score
\* whenever there is a prediction, and holds no two detections whose IoU, in
\* either order, is not below iouThresh = 0.45.
C39_NmsDeduplicates ==
  detector.ran =>
    LET sel == detector.selected
        pre == detector.predictions
    IN /\ Len(sel) <= Len(pre)
       /\ \A d \in Range(sel) : Occurrences(sel, d) <= Occurrences(pre, d)
       /\ \A i, j \in DOMAIN sel : i < j => RGeq(sel[i].score, sel[j].score)
       /\ pre # <<>> =>
            /\ sel # <<>>
            /\ \A d \in Range(pre) : RGeq(sel[1].score, d.score)
       /\ \A i, j \in DOMAIN sel :
            i # j => RLt(Iou(sel[i].bbox, sel[j].bbox), Frac(9, 20))

\* of three predictions nms returns two: it drops one whose IoU with the
\* best one is exactly 0.45
C39_Witness ==
  /\ detector.ran
  /\ Len(detector.predictions) = 3
  /\ Len(detector.selected) = 2
  /\ \E d \in Range(detector.predictions) :
       /\ d \notin Range(detector.selected)
       /\ Iou(detector.selected[1].bbox, d.bbox) = Frac(9, 20)

====
